---- MODULE Spec2Model ----
(***************************************************************************)
(* A model of src/interface.py: the Archive, the expression algebra of     *)
(* XSPECInterface._configure_new_expression, the naming of archived        *)
(* components, and the session operations of XSPECInterface driving the    *)
(* external fitting engine.                                                *)
(*                                                                         *)
(* Text is modelled as a sequence of tokens.  A token is a piece of text   *)
(* that none of the program's patterns ('const*', 'constant',              *)
(* '{outer}constant*({inner})', '{outer}constant*{inner}', '_') can split: *)
(* a component name, "*", "(", ")", a single space " ", the separator      *)
(* " + " the program itself writes, "_" and a decimal number.              *)
(***************************************************************************)
EXTENDS Integers, Sequences, FiniteSets, TLC

VARIABLES
    hEnergy,    \* energy edges: the bin centers, in units of 0.5 keV
    hEnergyErr, \* energy edges: the bin half-widths, in units of 0.5 keV
    hEdges,     \* energy edges: the result of compute_energy_edges (<<>>: not called)
    xPileup,    \* expression chain: the standing pileup expression
    xPrev,      \* expression chain: the last result, fed back as 'old'
    xAdded,     \* expression chain: the expressions passed as 'new', in order
    xRaised,    \* expression chain: the last call raised
    nModel,     \* component naming: model.componentNames of the live model
    nComponents,\* component naming: ArchivedModel.components, in insertion order
    nAgain,     \* component naming: the components of a second archiving
    nState,     \* component naming: "live", "archived", "rearchived", "raised"
    lComponent, \* parameter labels: the name and parameterNames of a live component
    lArchived,  \* parameter labels: the ArchivedComponent made of it, and how
    archive,            \* Archive.instruments: instrument -> (model name -> ArchivedModel)
    instruments,        \* XSPECInterface.instruments: name -> Instrument
    signal_groups,      \* XSPECInterface.signal_groups
    pileup_groups,      \* XSPECInterface.pileup_groups
    pileup_sources,     \* XSPECInterface.pileup_sources: source -> instrument name
    pileup_expression,  \* XSPECInterface.pileup_expression
    current_model,      \* XSPECInterface.current_model ("": the attribute is not set)
    results,            \* XSPECInterface.results (exists: the attribute is set)
    eData,              \* engine: the data groups loaded (xspec.AllData)
    eModels,            \* engine: the models defined (xspec.AllModels), by name
    raised,             \* the last call raised an exception to its caller
    call,               \* the last call and what it was given
    eLogs,              \* engine: the logs opened by Xset.openLog and not closed, by model name
    nCalls,             \* the number of calls made, by operation
    budget              \* the number of calls explored, by operation

svars == <<archive, instruments, signal_groups, pileup_groups, pileup_sources,
           pileup_expression, current_model, results, eData, eModels, eLogs,
           raised, call, nCalls, budget>>
xvars == <<xPileup, xPrev, xAdded, xRaised>>
nvars == <<nModel, nComponents, nAgain, nState, lComponent, lArchived>>
hvars == <<hEnergy, hEnergyErr, hEdges>>
vars == <<xvars, nvars, svars, hvars>>

\* ------------------------------------------------------------------ bounds

MaxTerms == 3
MaxComponents == 3
MaxAddModel == 4
MaxRegistrations == 2
MaxClears == 1
MaxReads == 1
MaxPileupModels == 1
MaxArchivings == 1
MaxAdds == 2
MaxFits == 1
MaxCalls == 7
MaxStaleCalls == 8
MaxBins == 3
MaxParameters == 3

\* -------------------------------------------------------------------- text

Last(s) == s[Len(s)]

\* s[i..] starts with pat
SubSeqAt(s, i, pat) ==
    /\ i >= 1
    /\ i + Len(pat) - 1 <= Len(s)
    /\ SubSeq(s, i, i + Len(pat) - 1) = pat

\* Python's  pat in s
Contains(s, pat) == \E i \in 1..Len(s) : SubSeqAt(s, i, pat)

RECURSIVE ReplaceFrom(_, _, _, _)
ReplaceFrom(s, i, pat, rep) ==
    IF i > Len(s) THEN <<>>
    ELSE IF SubSeqAt(s, i, pat)
         THEN rep \o ReplaceFrom(s, i + Len(pat), pat, rep)
         ELSE <<s[i]>> \o ReplaceFrom(s, i + 1, pat, rep)

\* Python's  s.replace(pat, rep)
Replace(s, pat, rep) == ReplaceFrom(s, 1, pat, rep)

Min(S) == CHOOSE m \in S : \A n \in S : m <= n

\* ------------------------------------------------------ expression algebra

NoMatch == [matched |-> FALSE, outer |-> <<>>, inner |-> <<>>]

\* parse.parse('{outer}constant*({inner})', s): the whole of s must match,
\* both fields are non-empty and {outer} is the shortest that matches.
ParseParen(s) ==
    LET I == { i \in 1..Len(s) :
                 /\ SubSeqAt(s, i + 1, <<"constant", "*", "(">>)
                 /\ Len(s) >= i + 5
                 /\ Last(s) = ")" }
    IN  IF I = {} THEN NoMatch
        ELSE [matched |-> TRUE,
              outer   |-> SubSeq(s, 1, Min(I)),
              inner   |-> SubSeq(s, Min(I) + 4, Len(s) - 1)]

\* parse.parse('{outer}constant*{inner}', s)
ParseNoParen(s) ==
    LET I == { i \in 1..Len(s) :
                 /\ SubSeqAt(s, i + 1, <<"constant", "*">>)
                 /\ Len(s) >= i + 3 }
    IN  IF I = {} THEN NoMatch
        ELSE [matched |-> TRUE,
              outer   |-> SubSeq(s, 1, Min(I)),
              inner   |-> SubSeq(s, Min(I) + 3, Len(s))]

\* CONSTANT_EXPRESSION_PAREN.format(outer=..., inner=...)
CONSTANT_EXPRESSION_NO_PAREN(outer, inner) ==
    outer \o <<"constant", "*">> \o inner

CONSTANT_EXPRESSION_PAREN(outer, inner) ==
    outer \o <<"constant", "*", "(">> \o inner \o <<")">>

\* the first two lines of _configure_new_expression
Normalize(new) ==
    IF Contains(new, <<"const", "*">>)
    THEN Replace(new, <<"const", "*">>, <<"constant", "*">>)
    ELSE new

\* p = parse(PAREN, old); if p is None: p = parse(NO_PAREN, old)
ParseOld(old) ==
    IF ParseParen(old).matched THEN ParseParen(old) ELSE ParseNoParen(old)

\* _configure_new_expression that takes a 'previous' matching neither
\* pattern as one without the constant factor
configure_new_expression_guess(new, old, pileup) ==
    LET n0 == Normalize(new)
        p  == ParseOld(<<" ">> \o old)
        n1 == IF old = <<>> THEN n0
              ELSE IF Contains(old, <<"constant">>) /\ p.matched
                   THEN CONSTANT_EXPRESSION_PAREN(p.outer, p.inner \o <<" + ">> \o n0)
                   ELSE old \o <<" + ">> \o n0
    IN  [ok |-> TRUE, expr |-> IF pileup # <<>> THEN pileup \o <<" + ">> \o n1 ELSE n1]

\* XSPECInterface._configure_new_expression(new, old) with
\* self.pileup_expression = pileup.  ok = FALSE: the call raised (p is None
\* and p.named is read).
configure_new_expression(new, old, pileup) ==
    LET n0 == Normalize(new)
        p  == ParseOld(<<" ">> \o old)
        n1 == IF old = <<>> THEN n0
              ELSE IF Contains(old, <<"constant">>)
                   THEN CONSTANT_EXPRESSION_PAREN(p.outer, p.inner \o <<" + ">> \o n0)
                   ELSE old \o <<" + ">> \o n0
        n2 == IF pileup # <<>> THEN pileup \o <<" + ">> \o n1 ELSE n1
    IN  IF old # <<>> /\ Contains(old, <<"constant">>) /\ ~p.matched
        THEN [ok |-> FALSE, expr |-> <<>>]
        ELSE [ok |-> TRUE, expr |-> n2]

\* ------------------------------------------- the expression chain (SpecExpr)

\* The additive terms a caller adds.
Terms == { <<"vapec">>, <<"bknpower">> }

\* The spellings of the constant factor: canonical, shorthand, and both
\* written with spaces around '*' as in EXPRESSIONS.
Wrappers == { <<"constant", "*">>, <<"const", "*">>,
              <<"const", " ", "*", " ">>, <<"constant", " ", "*", " ">> }

\* What a caller passes first: 'const * vapec', 'const * (vapec + vapec)', ...
FirstExpressions ==
    { w \o t : w \in Wrappers, t \in Terms }
    \cup { w \o <<"(", "vapec", " + ", "vapec", ")">> : w \in Wrappers }

PileupExpressions == { <<>>, <<"expmodgauss">> }

IdleExpr == xPileup = <<>> /\ xPrev = <<>> /\ xAdded = <<>> /\ xRaised = FALSE

IdleEdges == hEnergy = <<>> /\ hEnergyErr = <<>> /\ hEdges = <<>>

NoCalls == [add_model |-> 0, add_instrument |-> 0, clear_data |-> 0, read_data |-> 0,
            set_pileup_model |-> 0, archive_previous |-> 0, add_component |-> 0, fit |-> 0]

\* XSPECInterface.__init__, and an engine with no data and no model
Constructed ==
    /\ archive = <<>>
    /\ instruments = <<>>
    /\ signal_groups = <<>>
    /\ pileup_groups = <<>>
    /\ pileup_sources = <<>>
    /\ pileup_expression = <<>>
    /\ current_model = ""
    /\ results = [exists |-> FALSE, records |-> <<>>]
    /\ eData = <<>>
    /\ eModels = <<>>
    /\ eLogs = <<>>
    /\ raised = FALSE
    /\ call = [op |-> "init"]
    /\ nCalls = NoCalls

IdleSession == Constructed /\ budget = NoCalls

IdleLabels == lComponent = <<>> /\ lArchived = <<>>

IdleNames ==
    nModel = <<>> /\ nComponents = <<>> /\ nAgain = <<>> /\ nState = "live" /\ IdleLabels

InitExpr ==
    /\ IdleEdges
    /\ IdleNames
    /\ IdleSession
    /\ xPileup \in PileupExpressions
    /\ xPrev = <<>>
    /\ xAdded = <<>>
    /\ xRaised = FALSE

\* one call of the extension step, its result fed back as the next 'old'
Extend ==
    /\ Len(xAdded) < MaxTerms
    /\ ~xRaised
    /\ \E c \in (IF xAdded = <<>> THEN FirstExpressions ELSE Terms) :
         LET r == configure_new_expression(c, xPrev, xPileup)
         IN  /\ xAdded' = Append(xAdded, c)
             /\ xRaised' = ~r.ok
             /\ xPrev' = IF r.ok THEN r.expr ELSE xPrev
    /\ UNCHANGED <<xPileup, nvars, svars, hvars>>

NextExpr == Extend

SpecExpr == InitExpr /\ [][NextExpr]_vars

\* ------------------------------------------------------------ C2 (SpecExpr)

IsTerm(tok) == <<tok>> \in Terms

IsFactor(tok) == tok \in {"const", "constant"}

RECURSIVE Flatten(_)
Flatten(ss) == IF ss = <<>> THEN <<>> ELSE Head(ss) \o Flatten(Tail(ss))

\* the additive terms the caller has added so far, in the order added
AddedTerms == SelectSeq(Flatten(xAdded), IsTerm)

HasFactor(e) == \E k \in 1..Len(e) : IsFactor(e[k])

FactorAt(e) == Min({ k \in 1..Len(e) : IsFactor(e[k]) })

\* the first token of what the constant factor multiplies
BodyStart(e) == Min({ j \in (FactorAt(e) + 1)..Len(e) : e[j] \notin {" ", "*"} })

\* the last token the constant factor multiplies: the matching ")" of a
\* parenthesized body, or the single term of a bare one
BodyEnd(e) ==
    IF e[BodyStart(e)] = "("
    THEN Min({ m \in BodyStart(e)..Len(e) : e[m] = ")" })
    ELSE BodyStart(e)

InnerBody(e) == SelectSeq(SubSeq(e, BodyStart(e), BodyEnd(e)), IsTerm)

AfterBody(e) == SelectSeq(SubSeq(e, BodyEnd(e) + 1, Len(e)), IsTerm)

\* C2: expression round-trip.  After any chain of extension steps that did
\* not raise, the composite carries the constant factor, the body the factor
\* multiplies holds exactly the added terms in the order added, and no added
\* term lies outside that body.
C2_RoundTrip ==
    (xAdded # <<>> /\ ~xRaised) =>
        /\ HasFactor(xPrev)
        /\ InnerBody(xPrev) = AddedTerms
        /\ AfterBody(xPrev) = <<>>

\* -------------------------------------------------------- component naming

\* COMPONENT_PARAMETER_MAPPING: the component families the archive knows
COMPONENT_PARAMETER_MAPPING ==
    [constant    |-> <<"factor">>,
     vapec       |-> <<"kT", "norm">>,
     bknpower    |-> <<"norm", "BreakE", "PhoIndx1", "PhoIndx2">>,
     expmodgauss |-> <<"norm", "lam", "mu", "sigma">>]

MappedFamilies == DOMAIN COMPONENT_PARAMETER_MAPPING

\* The families the engine offers; "gaussian" stands for every family that
\* COMPONENT_PARAMETER_MAPPING does not list.
EngineFamilies == MappedFamilies \cup {"gaussian"}

\* model.componentNames: the engine names the first component of a family by
\* the family, a later one by family_<position in the model>.
EngineComponentName(bases, i) ==
    IF \E j \in 1..(i - 1) : bases[j] = bases[i]
    THEN <<bases[i], "_", ToString(i)>>
    ELSE <<bases[i]>>

EngineComponentNames(bases) == [i \in 1..Len(bases) |-> EngineComponentName(bases, i)]

\* Python's  name.split('_')[0]
SplitUnderscore(name) ==
    LET U == { i \in 1..Len(name) : name[i] = "_" }
    IN  IF U = {} THEN name ELSE SubSeq(name, 1, Min(U) - 1)

\* ArchivedComponent.base_name
base_name(name) == SplitUnderscore(name)

\* np.unique(component_names, return_counts=True): the count of one name
Counts(names, n) == Cardinality({ i \in 1..Len(names) : names[i] = n })

\* d[key] = value on an insertion-ordered dict kept as a sequence of entries
DictSet(d, key, value) ==
    IF \E i \in 1..Len(d) : d[i].key = key
    THEN [i \in 1..Len(d) |-> IF d[i].key = key THEN [key |-> key, value |-> value] ELSE d[i]]
    ELSE Append(d, [key |-> key, value |-> value])

DictKeys(d) == [i \in 1..Len(d) |-> d[i].key]

DictHas(d, key) == \E i \in 1..Len(d) : d[i].key = key

DictGet(d, key) == d[CHOOSE i \in 1..Len(d) : d[i].key = key].value

\* f'{component_name}{occurences[component_name]["uses"]}' when the family
\* occurs more than once, else the family name
InstanceNameOffByOne(family, counts, uses) ==
    IF counts > 1 THEN family \o <<ToString(uses - 1)>> ELSE family

InstanceName(family, counts, uses) ==
    IF counts > 1 THEN family \o <<ToString(uses)>> ELSE family

\* the loop of ArchivedModel._archive_components from component i on; uses is
\* occurences[..]['uses'] and d is self.components so far.  values(i) is the
\* ArchivedComponent made of component i.
RECURSIVE ArchiveLoop(_, _, _, _, _)
ArchiveLoop(names, values, i, uses, d) ==
    IF i > Len(names) THEN d
    ELSE LET family == SplitUnderscore(names[i])
             counts == Counts([k \in 1..Len(names) |-> SplitUnderscore(names[k])], family)
             used   == IF counts > 1 THEN uses[family] + 1 ELSE uses[family]
         IN  ArchiveLoop(names, values, i + 1,
                         [uses EXCEPT ![family] = used],
                         DictSet(d, InstanceName(family, counts, used), values[i]))

\* ArchivedModel._archive_components(model): self.components
archive_components(names, values) ==
    ArchiveLoop(names, values, 1,
                [f \in { SplitUnderscore(names[k]) : k \in 1..Len(names) } |-> 0],
                <<>>)

\* ArchivedComponent.__init__ raises KeyError for a family that
\* COMPONENT_PARAMETER_MAPPING does not list.
ArchiveRaises(names) ==
    \E i \in 1..Len(names) : base_name(names[i])[1] \notin MappedFamilies

RECURSIVE Lists(_, _)
Lists(S, n) ==
    IF n = 0 THEN { <<>> }
    ELSE Lists(S, n - 1) \cup { Append(l, x) : l \in Lists(S, n - 1), x \in S }

InitNames ==
    /\ IdleEdges
    /\ IdleExpr
    /\ IdleSession
    /\ nModel \in { EngineComponentNames(b) : b \in Lists(EngineFamilies, MaxComponents) \ { <<>> } }
    /\ nComponents = <<>>
    /\ nAgain = <<>>
    /\ nState = "live"
    /\ IdleLabels

\* ArchivedModel.__init__ of the live model: the components are archived
\* under their instance names, each holding the engine's component name.
ArchiveComponents ==
    /\ nState = "live"
    /\ IF ArchiveRaises(nModel)
       THEN nState' = "raised" /\ UNCHANGED nComponents
       ELSE /\ nState' = "archived"
            /\ nComponents' = archive_components(nModel, nModel)
    /\ UNCHANGED <<nModel, nAgain, lComponent, lArchived, xvars, svars, hvars>>

\* the same model archived a second time
ArchiveAgain ==
    /\ nState = "archived"
    /\ nState' = "rearchived"
    /\ nAgain' = archive_components(nModel, nModel)
    /\ UNCHANGED <<nModel, nComponents, lComponent, lArchived, xvars, svars, hvars>>

NextNames == ArchiveComponents \/ ArchiveAgain

SpecNames == InitNames /\ [][NextNames]_vars

\* --------------------------------------------------------- parameter labels

\* COMPONENT_PARAMETER_MAPPING: <<label, unit>> by family and parameter name
MappedLabels ==
    [constant    |-> [factor   |-> <<"factor", "">>],
     vapec       |-> [kT       |-> <<"temperature", "keV">>,
                      norm     |-> <<"emission_measure", "">>],
     bknpower    |-> [norm     |-> <<"powerlaw_norm", "ph/keV/cm2/s">>,
                      BreakE   |-> <<"break_energy", "keV">>,
                      PhoIndx1 |-> <<"lower_index", "">>,
                      PhoIndx2 |-> <<"upper_index", "">>],
     expmodgauss |-> [norm     |-> <<"expmodgauss_norm", "">>,
                      lam      |-> <<"lambda", "ct/keV">>,
                      mu       |-> <<"mu", "keV">>,
                      sigma    |-> <<"sigma", "keV">>]]

\* the loop of ArchivedComponent.__init__ from parameter k on; mapping is
\* COMPONENT_PARAMETER_MAPPING[self.base_name], parameter the local variable
\* of that name (<<>>: not assigned yet) and d self.parameters so far.  For
\* a name the mapping lacks the code reads parameter.unit, the unit of the
\* ArchivedParameter of the turn before; with none it raises
\* UnboundLocalError.
RECURSIVE LabelsFrom(_, _, _, _, _)
LabelsFrom(mapping, names, k, parameter, d) ==
    IF k > Len(names) THEN [state |-> "archived", parameters |-> d]
    ELSE IF names[k] \notin DOMAIN mapping /\ parameter = <<>>
    THEN [state |-> "raised", parameters |-> d]
    ELSE LET made == [name  |-> names[k],
                      label |-> IF names[k] \in DOMAIN mapping
                                THEN mapping[names[k]][1] ELSE names[k],
                      unit  |-> IF names[k] \in DOMAIN mapping
                                THEN mapping[names[k]][2] ELSE parameter[1].unit]
         IN  LabelsFrom(mapping, names, k + 1, <<made>>, DictSet(d, names[k], made))

\* ArchivedComponent.__init__(component): self.parameters, and whether it
\* raised (KeyError for a family the mapping does not list)
ArchivedLabels(component) ==
    IF base_name(component.name)[1] \notin DOMAIN MappedLabels
    THEN [state |-> "raised", parameters |-> <<>>]
    ELSE LabelsFrom(MappedLabels[base_name(component.name)[1]],
                    component.parameterNames, 1, <<>>, <<>>)

\* the parameter names the engine may give a component; "He" stands for
\* every name that COMPONENT_PARAMETER_MAPPING does not list for any family
LiveParameterNames == {"kT", "norm", "factor", "He"}

Distinct(l) == \A i, j \in 1..Len(l) : l[i] = l[j] => i = j

InitLabels ==
    /\ IdleEdges
    /\ IdleExpr
    /\ IdleSession
    /\ nModel = <<>> /\ nComponents = <<>> /\ nAgain = <<>> /\ nState = "live"
    /\ lComponent \in
         { [name |-> <<f>>, parameterNames |-> l] :
             f \in EngineFamilies,
             l \in { m \in Lists(LiveParameterNames, MaxParameters) \ { <<>> } :
                       Distinct(m) } }
    /\ lArchived = [state |-> "live", parameters |-> <<>>]

\* ArchivedComponent(component) of the live component
ArchiveLabels ==
    /\ lArchived.state = "live"
    /\ lArchived' = ArchivedLabels(lComponent)
    /\ UNCHANGED <<lComponent, nModel, nComponents, nAgain, nState, xvars, svars, hvars>>

NextLabels == ArchiveLabels

SpecLabels == InitLabels /\ [][NextLabels]_vars

\* ----------------------------------------------------------- C9 (SpecNames)

Families(names) == [i \in 1..Len(names) |-> base_name(names[i])]

\* the number of components up to position i of the family of component i
Occurrence(fams, i) == Cardinality({ j \in 1..i : fams[j] = fams[i] })

\* the instance name the rule gives the component at position i
ExpectedName(fams, i) ==
    IF Counts(fams, fams[i]) > 1
    THEN fams[i] \o <<ToString(Occurrence(fams, i))>>
    ELSE fams[i]

\* C9: once a model is archived, the component at position i is stored under
\* its family name followed by its 1-based occurrence number when the family
\* occurs more than once and under the bare family name otherwise, the
\* instance names are pairwise distinct, no component is lost, (vapec, vapec,
\* bknpower) gives (vapec1, vapec2, bknpower), and a second archiving of the
\* same model gives the same names.
C9_Disambiguation ==
    (nState \in {"archived", "rearchived"}) =>
        /\ Len(nComponents) = Len(nModel)
        /\ \A i \in 1..Len(nModel) :
             /\ nComponents[i].key = ExpectedName(Families(nModel), i)
             /\ nComponents[i].value = nModel[i]
        /\ \A i, j \in 1..Len(nComponents) :
             nComponents[i].key = nComponents[j].key => i = j
        /\ (Families(nModel) = << <<"vapec">>, <<"vapec">>, <<"bknpower">> >>) =>
             DictKeys(nComponents) = << <<"vapec", "1">>, <<"vapec", "2">>, <<"bknpower">> >>
        /\ (nState = "rearchived") => DictKeys(nAgain) = DictKeys(nComponents)

C9_Witness ==
    /\ nState = "rearchived"
    /\ Families(nModel) = << <<"vapec">>, <<"vapec">>, <<"bknpower">> >>
    /\ DictKeys(nAgain) = << <<"vapec", "1">>, <<"vapec", "2">>, <<"bknpower">> >>

\* ------------------------------------------------------------------ Archive

InstrumentNames == {"A", "B"}

ModelNames == {"m1", "m2"}

\* Archive.add_model that overwrites the model stored under the name
add_model_overwrite(arch, instrument, model) ==
    LET a1 == IF ~DictHas(arch, instrument) THEN DictSet(arch, instrument, <<>>) ELSE arch
    IN  DictSet(a1, instrument, DictSet(DictGet(a1, instrument), model.name, model))

\* Archive.add_model(instrument, model): the archive afterwards
add_model(arch, instrument, model) ==
    LET a1 == IF ~DictHas(arch, instrument) THEN DictSet(arch, instrument, <<>>) ELSE arch
    IN  IF ~DictHas(DictGet(a1, instrument), model.name)
        THEN DictSet(a1, instrument, DictSet(DictGet(a1, instrument), model.name, model))
        ELSE a1

\* the model under the first key of the instrument
last_instrument_model_first(arch, instrument) == Head(DictGet(arch, instrument)).value

\* Archive.last_instrument_model(instrument)
last_instrument_model(arch, instrument) == Last(DictGet(arch, instrument)).value

\* the model the archive holds for the instrument under the name
Archived(arch, instrument, name) == DictGet(DictGet(arch, instrument), name)

IsArchived(arch, instrument, name) ==
    DictHas(arch, instrument) /\ DictHas(DictGet(arch, instrument), name)

\* The ArchivedModel objects handed to add_model: captures of a model of
\* the given name that differ in what they captured.
SomeArchivedModels ==
    [label : InstrumentNames, source : {1}, data_group : {1}, name : ModelNames,
     expression : { <<"vapec">>, <<"bknpower">> }, components : { <<>> }]

InitArchive == IdleEdges /\ IdleExpr /\ IdleNames /\ IdleSession

\* one call of Archive.add_model
AddModel ==
    /\ nCalls.add_model < MaxAddModel
    /\ \E m \in SomeArchivedModels :
         /\ archive' = add_model(archive, m.label, m)
         /\ call' = [op |-> "add_model", instrument |-> m.label, model |-> m]
    /\ raised' = FALSE
    /\ nCalls' = [nCalls EXCEPT !.add_model = @ + 1]
    /\ UNCHANGED <<instruments, signal_groups, pileup_groups, pileup_sources,
                   pileup_expression, current_model, results, eData, eModels, eLogs,
                   budget>>
    /\ UNCHANGED <<xvars, nvars, hvars>>

NextArchive == AddModel

SpecArchive == InitArchive /\ [][NextArchive]_vars

\* --------------------------------------------------------- C1 (SpecArchive)

\* C1: a model once stored under (instrument, name) stays the one stored
\* there, and an add_model call whose name the instrument already holds
\* leaves the whole archive as it was and does not raise.
C1_FirstCaptureKept ==
    [][ /\ \A i \in InstrumentNames, n \in ModelNames :
            IsArchived(archive, i, n) =>
                /\ IsArchived(archive', i, n)
                /\ Archived(archive', i, n) = Archived(archive, i, n)
        /\ (call'.op = "add_model"
              /\ IsArchived(archive, call'.instrument, call'.model.name)) =>
                (archive' = archive /\ ~raised') ]_vars

\* a duplicate add of a different capture has been made and the first is kept
C1_Witness ==
    /\ call.op = "add_model"
    /\ nCalls.add_model >= 2
    /\ IsArchived(archive, call.instrument, call.model.name)
    /\ Archived(archive, call.instrument, call.model.name) # call.model

\* -------------------------------------------------------- C11 (SpecArchive)

\* C11: after an add_model call under a name the instrument does not hold,
\* last_instrument_model of the instrument is the model just added; a
\* rejected duplicate add, and an add for another instrument, leave
\* last_instrument_model of an instrument as it was.
C11_MostRecentLookup ==
    [][ call'.op = "add_model" =>
          \A i \in InstrumentNames :
            IF i = call'.instrument /\ ~IsArchived(archive, i, call'.model.name)
            THEN last_instrument_model(archive', i) = call'.model
            ELSE DictHas(archive, i) =>
                    last_instrument_model(archive', i) = last_instrument_model(archive, i)
      ]_vars

\* a duplicate add under the older of two names of the instrument has been
\* rejected, and the most recent model is the one under the newer name
C11_Witness ==
    /\ call.op = "add_model"
    /\ DictHas(archive, call.instrument)
    /\ Len(DictGet(archive, call.instrument)) = 2
    /\ DictGet(archive, call.instrument)[1].key = call.model.name
    /\ DictGet(archive, call.instrument)[1].value # call.model
    /\ last_instrument_model(archive, call.instrument).name # call.model.name

\* ------------------------------------------------- energy edges (SpecEdges)

\* the bin centers and half-widths explored, in units of 0.5 keV
Centers == {2, 3, 4, 6}
HalfWidths == {1, 2}

\* np.append(energy - energy_err, [energy[-1] + energy_err[-1]])
compute_energy_edges_first(energy, energy_err) ==
    Append([i \in 1..Len(energy) |-> energy[i] - energy_err[i]], energy[1] + energy_err[1])

compute_energy_edges(energy, energy_err) ==
    Append([i \in 1..Len(energy) |-> energy[i] - energy_err[i]],
           Last(energy) + Last(energy_err))

InitEdges ==
    /\ IdleExpr
    /\ IdleNames
    /\ IdleSession
    /\ \E n \in 1..MaxBins :
          /\ hEnergy \in [1..n -> Centers]
          /\ hEnergyErr \in [1..n -> HalfWidths]
    /\ hEdges = <<>>

ComputeEnergyEdges ==
    /\ hEdges = <<>>
    /\ hEdges' = compute_energy_edges(hEnergy, hEnergyErr)
    /\ UNCHANGED <<hEnergy, hEnergyErr, xvars, nvars, svars>>

NextEdges == ComputeEnergyEdges

SpecEdges == InitEdges /\ [][NextEdges]_vars

\* ---------------------------------------------------------------------- C17
\* C17: for n bin centers and n half-widths compute_energy_edges returns
\* n + 1 edges: edge i is center i minus half-width i, and the last edge is
\* the last center plus the last half-width
C17_EnergyEdges ==
    hEdges # <<>> =>
        /\ Len(hEdges) = Len(hEnergy) + 1
        /\ \A i \in 1..Len(hEnergy) : hEdges[i] = hEnergy[i] - hEnergyErr[i]
        /\ hEdges[Len(hEnergy) + 1] = hEnergy[Len(hEnergy)] + hEnergyErr[Len(hEnergy)]
        /\ (hEnergy = <<2, 4, 6>> /\ hEnergyErr = <<1, 1, 1>>) => hEdges = <<1, 3, 5, 7>>

\* centers [1, 2, 3] keV with half-widths [0.5, 0.5, 0.5] keV gave
\* [0.5, 1.5, 2.5, 3.5] keV
C17_Witness ==
    hEnergy = <<2, 4, 6>> /\ hEnergyErr = <<1, 1, 1>> /\ hEdges = <<1, 3, 5, 7>>

\* ---------------------------------------------------- the fitting engine

\* The value tuple of a parameter, (value, step, hard_min, soft_min, soft_max,
\* hard_max), is kept as <<kind, n, g>>: the engine's default, the tuple of
\* the limits file, the tuple '0 0 0 0 0 0', a value 1.0, or the result of
\* the n-th fit for data group g.
DefaultValues == <<"default", 0, 0>>
LimitValues == <<"limits", 0, 0>>
ZeroValues == <<"zero", 0, 0>>
OneValues == <<"one", 0, 0>>
FitValues(n, g) == <<"fit", n, g>>

\* a spectrum as loaded: its own response in slot 0, no other slot set
LoadedSpectrum(owner) == (0 :> owner)

\* the sources for which the spectrum of a data group has a response
SourcesOf(spectrum) == { k + 1 : k \in { j \in DOMAIN spectrum : spectrum[j] # "none" } }

\* the data groups that hold a copy of a model of the given source: those
\* whose spectrum has a response for it; without data, a model of source 1
\* has the one copy of data group 1
Coverage(data, source) ==
    LET G == { g \in DOMAIN data : source \in SourcesOf(data[g]) }
    IN  IF DOMAIN data = {} /\ source = 1 THEN {1} ELSE G

\* the families named in an expression, in order ('const' abbreviates
\* 'constant')
ExpressionFamilies(expression) ==
    LET fams == SelectSeq(expression, LAMBDA tok : tok \in EngineFamilies \cup {"const"})
    IN  [i \in 1..Len(fams) |-> IF fams[i] = "const" THEN "constant" ELSE fams[i]]

\* the parameters the engine gives a component of a family
EngineParameterNames(family) ==
    IF family \in MappedFamilies THEN COMPONENT_PARAMETER_MAPPING[family]
    ELSE <<"LineE", "Sigma", "norm">>

\* the link of a parameter tied to the one of the same name of another copy
\* or model: '= model:p<n>', kept as the parameter it names
LinkTo(model, group, component, parameter) == <<"=", model, group, component, parameter>>

NoLink == <<>>

\* a fresh component of the copy for data group g of a model whose first
\* copy is that of data group g0: the parameters of a later copy are linked
\* to those of the first
FreshComponent(model, g, g0, cname) ==
    LET pnames == EngineParameterNames(base_name(cname)[1])
    IN  [name |-> cname,
         parameters |->
            [k \in 1..Len(pnames) |->
                [name |-> pnames[k], values |-> DefaultValues, frozen |-> FALSE,
                 link |-> IF g = g0 THEN NoLink ELSE LinkTo(model, g0, cname, pnames[k])]]]

FreshCopy(model, expression, g, g0) ==
    LET cnames == EngineComponentNames(ExpressionFamilies(expression))
    IN  [k \in 1..Len(cnames) |-> FreshComponent(model, g, g0, cnames[k])]

\* xspec.Model(expression, name, source): the engine's models afterwards.
\* A source has one model: the new one replaces any other of its source.
EngineModel(models, data, expression, name, source) ==
    LET G    == Coverage(data, source)
        kept == SelectSeq(models, LAMBDA e : e.value.source # source /\ e.key # name)
    IN  Append(kept,
               [key |-> name,
                value |-> [source |-> source, expression |-> expression,
                           copies |-> [g \in G |-> FreshCopy(name, expression, g, Min(G))]]])

\* xspec.AllModels(group, name) raises when there is no such model copy
HasModel(models, group, name) ==
    DictHas(models, name) /\ group \in DOMAIN DictGet(models, name).copies

\* the models after the data changed: each keeps the copies of the groups
\* it still covers and gets fresh copies for the groups it newly covers
Recover(models, data) ==
    [i \in 1..Len(models) |->
        LET m == models[i].value
            G == Coverage(data, m.source)
        IN  [key |-> models[i].key,
             value |-> [m EXCEPT !.copies =
                          [g \in G |-> IF g \in DOMAIN m.copies THEN m.copies[g]
                                       ELSE FreshCopy(models[i].key, m.expression, g, Min(G))]]]]

\* ------------------------------------------------------- instrument registry

num_groups(sg, pg) == Len(sg) + Len(pg)

\* XSPECInterface.add_instrument(name, signal_file, pileup_file): the
\* registry afterwards (pileup: a pileup file is given)
add_instrument(insts, sg, pg, ps, name, pileup) ==
    LET g1   == num_groups(sg, pg) + 1
        sg1  == Append(sg, g1)
        g2   == num_groups(sg1, pg) + 1
        ps1  == IF pileup THEN DictSet(ps, Len(ps) + 2, name) ELSE ps
        pg1  == IF pileup THEN Append(pg, g2) ELSE pg
        inst == [name |-> name, signal_data_group |-> g1, signal_source |-> 1,
                 pileup_file |-> pileup,
                 pileup_data_group |-> IF pileup THEN g2 ELSE 0,
                 pileup_source |-> IF pileup THEN Len(ps1) + 1 ELSE 0]
    IN  [instruments |-> DictSet(insts, name, inst),
         signal_groups |-> sg1, pileup_groups |-> pg1, pileup_sources |-> ps1]

\* XSPECInterface._configure_responses: the spectra afterwards
configure_responses(data, insts, ps) ==
    IF \A i \in 1..Len(insts) : ~insts[i].value.pileup_file THEN data
    ELSE [g \in DOMAIN data |->
            LET sig == { i \in 1..Len(insts) : insts[i].value.signal_data_group = g }
                pil == { i \in 1..Len(insts) :
                           insts[i].value.pileup_file /\ insts[i].value.pileup_data_group = g }
                \* the writes to this spectrum in the order of the loop: the
                \* last instrument that holds the group writes last
                lastS == IF sig = {} THEN 0 ELSE CHOOSE i \in sig : \A j \in sig : j <= i
                lastP == IF pil = {} THEN 0 ELSE CHOOSE i \in pil : \A j \in pil : j <= i
                asSignal == [k \in 0..Len(ps) |->
                               IF k = 0 THEN <<insts[lastS].key, "signal">> ELSE "none"]
                asPileup == [k \in 0..Len(ps) |->
                               IF k = insts[lastP].value.pileup_source - 1
                               THEN <<insts[lastP].key, "pileup">> ELSE "none"]
            IN  IF lastS = 0 /\ lastP = 0 THEN data[g]
                ELSE IF lastP >= lastS THEN asPileup ELSE asSignal]

\* XSPECInterface.read_data: xspec.AllData(data_str), the spectra loaded
read_data_spectra(insts) ==
    LET G == { insts[i].value.signal_data_group : i \in 1..Len(insts) }
             \cup { insts[i].value.pileup_data_group :
                      i \in { j \in 1..Len(insts) : insts[j].value.pileup_file } }
    IN  [g \in G |->
            LET last == CHOOSE i \in 1..Len(insts) :
                          /\ g \in {insts[i].value.signal_data_group, insts[i].value.pileup_data_group}
                          /\ \A j \in 1..Len(insts) :
                               g \in {insts[j].value.signal_data_group, insts[j].value.pileup_data_group}
                                  => j <= i
            IN  LoadedSpectrum(<<insts[last].key,
                                 IF insts[last].value.signal_data_group = g
                                 THEN "signal" ELSE "pileup">>)]

\* ---------------------------------------------------------------- archiving

\* Instrument.pileup_model_name
pileup_model_name(inst) == "pileup" \o inst.name

\* ArchivedParameter(parameter, label, unit)
ArchivedParameter(parameter) ==
    [name |-> parameter.name, values |-> parameter.values,
     frozen |-> parameter.frozen, link |-> parameter.link]

\* ArchivedComponent(component)
ArchivedComponent(component) ==
    [name |-> component.name,
     parameters |-> [k \in 1..Len(component.parameters) |->
                        ArchivedParameter(component.parameters[k])]]

\* ArchivedModel(label, source, data_group, model): model is the copy for
\* data_group of the engine's model of that name
ArchivedModel(label, source, data_group, models, name) ==
    LET m    == DictGet(models, name)
        copy == m.copies[data_group]
    IN  [label |-> label, source |-> source, data_group |-> data_group,
         name |-> name, expression |-> m.expression,
         components |-> archive_components(
                            [k \in 1..Len(copy) |-> copy[k].name],
                            [k \in 1..Len(copy) |-> ArchivedComponent(copy[k])])]

\* ArchivedModel.__init__ raises: xspec.AllData(data_group) of a group that
\* is not loaded, or a component of a family the mapping does not list
ArchivedModelRaises(data, models, data_group, name) ==
    \/ data_group \notin DOMAIN data
    \/ LET copy == DictGet(models, name).copies[data_group]
       IN  ArchiveRaises([k \in 1..Len(copy) |-> copy[k].name])

\* the loop of XSPECInterface.archive_previous from instrument i on
RECURSIVE ArchiveFrom(_, _, _, _, _, _)
ArchiveFrom(i, arch, insts, data, models, current) ==
    IF i > Len(insts) THEN [archive |-> arch, raised |-> FALSE, skipped |-> {}]
    ELSE LET inst == insts[i].value
             a1   == add_model(arch, inst.name,
                         ArchivedModel(inst.name, inst.signal_source,
                                       inst.signal_data_group, models, current))
             pname == pileup_model_name(inst)
         IN  IF ~HasModel(models, inst.signal_data_group, current)
             THEN [ArchiveFrom(i + 1, arch, insts, data, models, current)
                      EXCEPT !.skipped = @ \cup {inst.name}]
             ELSE IF ArchivedModelRaises(data, models, inst.signal_data_group, current)
             THEN [archive |-> arch, raised |-> TRUE, skipped |-> {}]
             ELSE IF ~inst.pileup_file
             THEN ArchiveFrom(i + 1, a1, insts, data, models, current)
             ELSE IF \/ ~HasModel(models, inst.pileup_data_group, pname)
                     \/ ArchivedModelRaises(data, models, inst.pileup_data_group, pname)
             THEN [archive |-> a1, raised |-> TRUE, skipped |-> {}]
             ELSE ArchiveFrom(i + 1,
                      add_model(a1, inst.name,
                          ArchivedModel(inst.name, inst.pileup_source,
                                        inst.pileup_data_group, models, pname)),
                      insts, data, models, current)

\* XSPECInterface.archive_previous(): the archive afterwards, whether the
\* call raised, and the instruments the except branch skipped
archive_previous(arch, insts, data, models, current, res) ==
    IF current = "" \/ ~res.exists THEN [archive |-> arch, raised |-> FALSE, skipped |-> {}]
    ELSE ArchiveFrom(1, arch, insts, data, models, current)

\* ------------------------------------------------------- model assembly steps

\* the model named name with the copy of data group g replaced
WithCopy(models, name, g, copy) ==
    [i \in 1..Len(models) |->
        IF models[i].key = name
        THEN [key |-> name, value |-> [models[i].value EXCEPT !.copies[g] = copy]]
        ELSE models[i]]

CopyOf(models, name, g) == DictGet(models, name).copies[g]

HasComponent(copy, cname) == \E k \in 1..Len(copy) : copy[k].name = cname

ComponentAt(copy, cname) == CHOOSE k \in 1..Len(copy) : copy[k].name = cname

HasParameter(component, pname) ==
    \E k \in 1..Len(component.parameters) : component.parameters[k].name = pname

ParameterOf(component, pname) ==
    component.parameters[CHOOSE k \in 1..Len(component.parameters) :
                            component.parameters[k].name = pname]

\* the body of the instrument loop of _set_parameter_limits for one copy
\* the assignments _set_parameter_limits makes to one parameter, in the
\* order of the code: parameter.values = limits in the loop over conf_dict
\* (lines 935-942), parameter.link = '' in the loop after it (lines 944-947)
LimitWrites(q, group_num, conf, tie_data_groups) ==
    (IF q.name \in conf /\ ~(group_num > 1 /\ tie_data_groups)
     THEN <<"values">> ELSE <<>>)
    \o (IF ~tie_data_groups THEN <<"link">> ELSE <<>>)

\* the parameter after the assignments ws, made from the first on
RECURSIVE LimitWritten(_, _)
LimitWritten(q, ws) ==
    IF ws = <<>> THEN q
    ELSE LimitWritten(IF Head(ws) = "values" THEN [q EXCEPT !.values = LimitValues]
                      ELSE [q EXCEPT !.link = NoLink],
                      Tail(ws))

LimitCopy(copy, group_num, conf, tie_data_groups) ==
    [c \in 1..Len(copy) |->
        [copy[c] EXCEPT !.parameters =
            [k \in 1..Len(copy[c].parameters) |->
                LimitWritten(copy[c].parameters[k],
                             LimitWrites(copy[c].parameters[k], group_num, conf,
                                         tie_data_groups))]]]

\* XSPECInterface._set_parameter_limits from instrument i on; conf is the
\* set of parameter names the limits file configures
RECURSIVE LimitsFrom(_, _, _, _, _, _)
LimitsFrom(i, models, insts, current, conf, tie_data_groups) ==
    IF i > Len(insts) THEN [models |-> models, raised |-> FALSE]
    ELSE LET g == insts[i].value.signal_data_group
         IN  IF ~HasModel(models, g, current) THEN [models |-> models, raised |-> TRUE]
             ELSE LimitsFrom(i + 1,
                      WithCopy(models, current, g,
                               LimitCopy(CopyOf(models, current, g), g, conf, tie_data_groups)),
                      insts, current, conf, tie_data_groups)

set_parameter_limits(models, insts, current, conf, tie_data_groups) ==
    LimitsFrom(1, models, insts, current, conf, tie_data_groups)

\* the names of the components of the pileup copy that come before the first
\* one the signal copy lacks (all of them when it lacks none): the ones the
\* loop reaches before signal_model.__dict__[component_name] raises
Reached(signal, pileup) ==
    LET missing == { k \in 1..Len(pileup) : ~HasComponent(signal, pileup[k].name) }
    IN  { pileup[k].name : k \in { j \in 1..Len(pileup) : \A m \in missing : j < m } }

LacksSome(signal, pileup) == \E k \in 1..Len(pileup) : ~HasComponent(signal, pileup[k].name)

\* the signal model, no link set (a variant)
LinkCopyNone(signal, pileup, pname, pg) == signal

\* signal_model.<component>.<parameter>.link = parameter, for the reached
\* components of the pileup model pname of data group pg
LinkCopy(signal, pileup, pname, pg) ==
    [c \in 1..Len(signal) |->
        IF signal[c].name \in Reached(signal, pileup)
        THEN [signal[c] EXCEPT !.parameters =
                [k \in 1..Len(signal[c].parameters) |->
                    [signal[c].parameters[k] EXCEPT
                        !.link = LinkTo(pname, pg, signal[c].name, signal[c].parameters[k].name)]]]
        ELSE signal[c]]

\* parameter.values = '0 0 0 0 0 0'; parameter.frozen = True, for the
\* reached components of the reference pileup model
ZeroCopy(signal, ref) ==
    [c \in 1..Len(signal) |->
        IF signal[c].name \in Reached(signal, ref)
        THEN [signal[c] EXCEPT !.parameters =
                [k \in 1..Len(signal[c].parameters) |->
                    [signal[c].parameters[k] EXCEPT !.values = ZeroValues, !.frozen = TRUE]]]
        ELSE signal[c]]

\* the first loop of _set_pileup_links from instrument i on; ref is the
\* copy ref_model names (<<>>: not assigned yet)
RECURSIVE LinkFrom(_, _, _, _, _)
LinkFrom(i, models, insts, current, ref) ==
    IF i > Len(insts) THEN [models |-> models, ref |-> ref, raised |-> FALSE]
    ELSE LET inst  == insts[i].value
             pname == pileup_model_name(inst)
             sig   == CopyOf(models, current, inst.signal_data_group)
             pil   == CopyOf(models, pname, inst.pileup_data_group)
         IN  IF ~HasModel(models, inst.signal_data_group, current)
             THEN [models |-> models, ref |-> ref, raised |-> TRUE]
             ELSE IF ~inst.pileup_file
             THEN LinkFrom(i + 1, models, insts, current, ref)
             ELSE IF ~HasModel(models, inst.pileup_data_group, pname)
             THEN [models |-> models, ref |-> ref, raised |-> TRUE]
             ELSE LET linked == WithCopy(models, current, inst.signal_data_group,
                                    LinkCopy(sig, pil, pname, inst.pileup_data_group))
                  IN  IF LacksSome(sig, pil)
                      THEN [models |-> linked, ref |-> <<pil>>, raised |-> TRUE]
                      ELSE LinkFrom(i + 1, linked, insts, current, <<pil>>)

\* the second loop of _set_pileup_links from instrument i on
RECURSIVE ZeroFrom(_, _, _, _, _)
ZeroFrom(i, models, insts, current, ref) ==
    IF i > Len(insts) THEN [models |-> models, raised |-> FALSE]
    ELSE LET inst == insts[i].value
             sig  == CopyOf(models, current, inst.signal_data_group)
         IN  IF inst.pileup_file THEN ZeroFrom(i + 1, models, insts, current, ref)
             ELSE IF ref = <<>> THEN [models |-> models, raised |-> TRUE]
             ELSE LET zeroed == WithCopy(models, current, inst.signal_data_group,
                                         ZeroCopy(sig, ref[1]))
                  IN  IF LacksSome(sig, ref[1])
                      THEN [models |-> zeroed, raised |-> TRUE]
                      ELSE ZeroFrom(i + 1, zeroed, insts, current, ref)

\* XSPECInterface._set_pileup_links()
set_pileup_links(models, insts, current) ==
    LET l == LinkFrom(1, models, insts, current, <<>>)
    IN  IF l.raised THEN [models |-> l.models, raised |-> TRUE]
        ELSE ZeroFrom(1, l.models, insts, current, l.ref)

\* the same-named archived parameter exists and is copied whatever its link
CopiedWhateverLink(old_component, pname) == HasParameter(old_component, pname)

\* add_component, migration: the archived parameter of that name exists and
\* its link is empty, so its values and frozen flag are copied
Copied(old_component, pname) ==
    /\ HasParameter(old_component, pname)
    /\ ParameterOf(old_component, pname).link = NoLink

\* add_component, migration: the archived parameter of that name exists and
\* is linked, so it is skipped
Skipped(old_component, pname) ==
    /\ HasParameter(old_component, pname)
    /\ ParameterOf(old_component, pname).link # NoLink

\* add_component, migration: the loop over the parameters of new_component
MigrateComponentAsArchived(new_component, old_component, freeze_previous) ==
    [new_component EXCEPT !.parameters =
        [k \in 1..Len(new_component.parameters) |->
            LET q == new_component.parameters[k]
                o == ParameterOf(old_component, q.name)
            IN  IF Copied(old_component, q.name)
                THEN [q EXCEPT !.values = o.values, !.frozen = o.frozen]
                ELSE q]]

MigrateComponent(new_component, old_component, freeze_previous) ==
    [new_component EXCEPT !.parameters =
        [k \in 1..Len(new_component.parameters) |->
            LET q == new_component.parameters[k]
                o == ParameterOf(old_component, q.name)
            IN  IF Copied(old_component, q.name)
                THEN [q EXCEPT !.values = o.values,
                               !.frozen = o.frozen \/ freeze_previous]
                ELSE q]]

\* what the loop over the parameters of new_component did, for the record
\* of the call: the parameters written (linked = FALSE) or the parameters
\* skipped as linked (linked = TRUE)
Touched(new_component, old_component, archived, group_num, linked) ==
    { [group |-> group_num, component |-> new_component.name, parameter |-> q.name,
       label |-> archived.label, model |-> archived.name,
       link |-> ParameterOf(old_component, q.name).link] :
        q \in { new_component.parameters[k] :
                  k \in { j \in 1..Len(new_component.parameters) :
                            IF linked
                            THEN Skipped(old_component, new_component.parameters[j].name)
                            ELSE Copied(old_component, new_component.parameters[j].name) } } }

\* add_component, migration:
\* old_component.name == 'constant' and group_num == 1
NeverPassedOver(old_component, group_num) == FALSE

PassedOver(old_component, group_num) ==
    old_component.name = <<"constant">> /\ group_num = 1

\* add_component, migration: the loop over archived_model.components from
\* the c-th on, for the copy of data group group_num
RECURSIVE MigrateFrom(_, _, _, _, _, _, _)
MigrateFrom(c, copy, archived, group_num, freeze_previous, writes, skips) ==
    IF c > Len(archived.components)
    THEN [copy |-> copy, raised |-> FALSE, writes |-> writes, skips |-> skips]
    ELSE LET old == archived.components[c].value
             k   == ComponentAt(copy, old.name)
         IN  IF PassedOver(old, group_num)
             THEN MigrateFrom(c + 1, copy, archived, group_num, freeze_previous, writes, skips)
             ELSE IF ~HasComponent(copy, old.name)
             THEN [copy |-> copy, raised |-> TRUE, writes |-> writes, skips |-> skips]
             ELSE MigrateFrom(c + 1,
                      [copy EXCEPT ![k] = MigrateComponent(copy[k], old, freeze_previous)],
                      archived, group_num, freeze_previous,
                      writes \cup Touched(copy[k], old, archived, group_num, FALSE),
                      skips \cup Touched(copy[k], old, archived, group_num, TRUE))

\* add_component, migration: the loop over self.signal_groups from the j-th
\* on; archived_models is the dict of the last model archived per instrument,
\* read through one iterator
RECURSIVE MigrateGroups(_, _, _, _, _, _, _, _)
MigrateGroups(j, models, sg, archived_models, current, freeze_previous, writes, skips) ==
    IF j > Len(sg)
    THEN [models |-> models, raised |-> FALSE, writes |-> writes, skips |-> skips]
    ELSE IF ~HasModel(models, sg[j], current) \/ j > Len(archived_models)
    THEN [models |-> models, raised |-> TRUE, writes |-> writes, skips |-> skips]
    ELSE LET r == MigrateFrom(1, CopyOf(models, current, sg[j]), archived_models[j].value,
                              sg[j], freeze_previous, writes, skips)
             m == WithCopy(models, current, sg[j], r.copy)
         IN  IF r.raised
             THEN [models |-> m, raised |-> TRUE, writes |-> r.writes, skips |-> r.skips]
             ELSE MigrateGroups(j + 1, m, sg, archived_models, current, freeze_previous,
                                r.writes, r.skips)

\* add_component: constant.factor.link = ''; constant.factor.frozen = True
FreezeFactor(q) == [q EXCEPT !.link = NoLink, !.frozen = TRUE]

\* the factor freed with its link left as it is
FreeFactorKeepLink(q) == [q EXCEPT !.values = OneValues, !.frozen = FALSE]

\* add_component: constant.factor = 1.0; .link = ''; .frozen = False
FreeFactor(q) == [q EXCEPT !.values = OneValues, !.link = NoLink, !.frozen = FALSE]

\* the factor parameter of the component named 'constant' of a copy, frozen
\* (first group) or freed (another group)
SetFactor(copy, first) ==
    [c \in 1..Len(copy) |->
        IF copy[c].name = <<"constant">>
        THEN [copy[c] EXCEPT !.parameters =
                [k \in 1..Len(copy[c].parameters) |->
                    IF copy[c].parameters[k].name = "factor"
                    THEN (IF first THEN FreezeFactor(copy[c].parameters[k])
                          ELSE FreeFactor(copy[c].parameters[k]))
                    ELSE copy[c].parameters[k]]]
        ELSE copy[c]]

\* add_component: the loop that frees the factor of the other groups, from
\* the j-th signal group on
RECURSIVE FreeFrom(_, _, _, _)
FreeFrom(j, models, sg, current) ==
    IF j > Len(sg) THEN [models |-> models, raised |-> FALSE]
    ELSE IF sg[j] = sg[1] THEN FreeFrom(j + 1, models, sg, current)
    ELSE IF ~HasModel(models, sg[j], current) THEN [models |-> models, raised |-> TRUE]
    ELSE FreeFrom(j + 1,
             WithCopy(models, current, sg[j],
                      SetFactor(CopyOf(models, current, sg[j]), FALSE)),
             sg, current)

\* add_component: the constant-factor convention (the last lines)
constant_convention(models, sg, current) ==
    IF sg = <<>> \/ ~HasModel(models, sg[1], current)
    THEN [models |-> models, raised |-> TRUE]
    ELSE IF ~HasComponent(CopyOf(models, current, sg[1]), <<"constant">>)
    THEN [models |-> models, raised |-> FALSE]
    ELSE FreeFrom(1,
             WithCopy(models, current, sg[1],
                      SetFactor(CopyOf(models, current, sg[1]), TRUE)),
             sg, current)

\* add_component: archived_models, the last model archived per instrument
ArchivedModels(arch) ==
    [i \in 1..Len(arch) |-> [key |-> arch[i].key, value |-> Last(arch[i].value).value]]

\* add_component: old_expression
old_expression(arch) ==
    IF arch = <<>> THEN <<>> ELSE Last(ArchivedModels(arch)).value.expression

\* XSPECInterface.add_component(model_name, expression, parameter_limits_file,
\* out_dir, freeze_previous, tie_data_groups) in the present state: what it
\* leaves behind.  stage names the step that raised, or "done".
add_component(model_name, expression, conf, freeze_previous, tie_data_groups) ==
    LET Out(a, old, models, g, raises, stage) ==
            [archive |-> a.archive, current |-> model_name, old |-> old,
             writes |-> g.writes, skips |-> g.skips, raised |-> raises,
             models |-> models, stage |-> stage]
        None == [writes |-> {}, skips |-> {}]
        \* lines 889-901
        Convention(a, old, g) ==
            CHOOSE r \in
              { Out(a, old, c.models, g, c.raised, IF c.raised THEN "constant" ELSE "done") :
                  c \in { constant_convention(g.models, signal_groups, model_name) } } : TRUE
        \* lines 863-887
        Migration(a, old, p) ==
            CHOOSE r \in
              { IF g.raised THEN Out(a, old, g.models, g, TRUE, "migration")
                ELSE Convention(a, old, g) :
                  g \in { IF a.archive # <<>>
                          THEN MigrateGroups(1, p.models, signal_groups,
                                             ArchivedModels(a.archive), model_name,
                                             freeze_previous, {}, {})
                          ELSE [models |-> p.models, raised |-> FALSE,
                                writes |-> {}, skips |-> {}] } } : TRUE
        \* lines 860-861
        Pileup(a, old, l) ==
            CHOOSE r \in
              { IF p.raised THEN Out(a, old, p.models, None, TRUE, "pileup")
                ELSE Migration(a, old, p) :
                  p \in { IF pileup_expression # <<>>
                          THEN set_pileup_links(l.models, instruments, model_name)
                          ELSE [models |-> l.models, raised |-> FALSE] } } : TRUE
        \* lines 855-859
        Instantiate(a, old, e) ==
            CHOOSE r \in
              { IF l.raised THEN Out(a, old, l.models, None, TRUE, "limits")
                ELSE Pileup(a, old, l) :
                  l \in { set_parameter_limits(
                              EngineModel(eModels, eData, e.expr, model_name, 1),
                              instruments, model_name, conf, tie_data_groups) } } : TRUE
        \* line 852
        Expression(a, old) ==
            CHOOSE r \in
              { IF ~e.ok THEN Out(a, old, eModels, None, TRUE, "expression")
                ELSE Instantiate(a, old, e) :
                  e \in { configure_new_expression(expression, old, pileup_expression) } } : TRUE
        \* lines 833-849
        Previous(a) ==
            IF a.raised
            THEN [archive |-> a.archive, current |-> current_model, old |-> <<>>,
                  writes |-> {}, skips |-> {}, raised |-> TRUE,
                  models |-> eModels, stage |-> "archive"]
            ELSE CHOOSE r \in { Expression(a, old) : old \in { old_expression(a.archive) } } : TRUE
    IN  CHOOSE r \in
          { Previous(a) :
              a \in { archive_previous(archive, instruments, eData, eModels,
                                       current_model, results) } } : TRUE

\* XSPECInterface.set_pileup_model(expression) from the i-th pileup source on
RECURSIVE PileupModelsFrom(_, _, _, _, _, _)
PileupModelsFrom(i, models, data, insts, ps, expression) ==
    IF i > Len(ps) THEN [models |-> models, raised |-> FALSE]
    ELSE LET inst == DictGet(insts, ps[i].value)
         IN  IF ~inst.pileup_file THEN [models |-> models, raised |-> TRUE]
             ELSE PileupModelsFrom(i + 1,
                      EngineModel(models, data, expression, pileup_model_name(inst), ps[i].key),
                      data, insts, ps, expression)

\* xspec.Fit.perform(): every free parameter of every model copy takes the
\* value this fit finds for its data group
FitPerform(models, n) ==
    [i \in 1..Len(models) |->
        [key |-> models[i].key,
         value |-> [models[i].value EXCEPT !.copies =
            [g \in DOMAIN models[i].value.copies |->
                [c \in 1..Len(models[i].value.copies[g]) |->
                    [models[i].value.copies[g][c] EXCEPT !.parameters =
                        [k \in 1..Len(models[i].value.copies[g][c].parameters) |->
                            LET q == models[i].value.copies[g][c].parameters[k]
                            IN  IF ~q.frozen /\ q.link = NoLink
                                THEN [q EXCEPT !.values = FitValues(n, g)] ELSE q]]]]]]]

\* the parameters of a model copy in the engine's order: parameter.index is
\* the position in this list and model.nParameters its length
RECURSIVE ParametersFrom(_, _)
ParametersFrom(copy, c) ==
    IF c > Len(copy) THEN <<>> ELSE copy[c].parameters \o ParametersFrom(copy, c + 1)

nParameters(copy) == Len(ParametersFrom(copy, 1))

\* not parameter.frozen and '=' not in parameter.link
Unfrozen(q) == ~q.frozen /\ q.link = NoLink

\* the parameter.index of the unfrozen, unlinked parameters, in order
FreeIndices(copy) ==
    LET flat == ParametersFrom(copy, 1)
    IN  SelectSeq([i \in 1..Len(flat) |-> i], LAMBDA i : Unfrozen(flat[i]))

\* (self.signal_groups).index(instrument.signal_data_group)
inst_index(sg, g) == Min({ j \in 1..Len(sg) : sg[j] = g }) - 1

\* corr_index = parameter.index; corr_index += inst_index * signal_model.nParameters
corr_index(index, position, n) == index + position * n

\* the tokens f'{signal_model.name}:{corr_index} ' of one instrument
SignalTokens(models, inst, sg, current) ==
    LET copy == CopyOf(models, current, inst.signal_data_group)
        free == FreeIndices(copy)
    IN  [j \in 1..Len(free) |->
            <<current, corr_index(free[j], inst_index(sg, inst.signal_data_group),
                                  nParameters(copy))>>]

\* the tokens f'{model.name}:{corr_index} ' of one instrument's pileup model
PileupTokens(models, inst) ==
    IF ~inst.pileup_file THEN <<>>
    ELSE LET free == FreeIndices(CopyOf(models, pileup_model_name(inst),
                                        inst.pileup_data_group))
         IN  [j \in 1..Len(free) |-> <<pileup_model_name(inst), free[j]>>]

\* error_str, as the list of its tokens, from the i-th instrument on
RECURSIVE ErrorTokensFrom(_, _, _, _, _)
ErrorTokensFrom(i, models, insts, sg, current) ==
    IF i > Len(insts) THEN <<>>
    ELSE SignalTokens(models, insts[i].value, sg, current)
            \o PileupTokens(models, insts[i].value)
            \o ErrorTokensFrom(i + 1, models, insts, sg, current)

\* fit(fit_error=True), the loop that builds error_str raises: an
\* instrument without a copy of the current model or without its pileup
\* model, or one with a free parameter whose data group is not in
\* self.signal_groups
FitErrorRaises(models, insts, sg, current) ==
    \E i \in 1..Len(insts) :
        LET inst == insts[i].value
            g    == inst.signal_data_group
        IN  \/ current = ""
            \/ ~HasModel(models, g, current)
            \/ /\ g \notin { sg[j] : j \in 1..Len(sg) }
               /\ \E c \in 1..Len(CopyOf(models, current, g)) :
                     \E k \in 1..Len(CopyOf(models, current, g)[c].parameters) :
                        LET q == CopyOf(models, current, g)[c].parameters[k]
                        IN  ~q.frozen /\ q.link = NoLink
            \/ /\ inst.pileup_file
               /\ ~HasModel(models, inst.pileup_data_group, pileup_model_name(inst))

\* gather_model_data(model_name, data_group) raises: no plot data of the
\* group, or no such model copy
GatherRaises(data, models, name, data_group) ==
    data_group \notin DOMAIN data \/ ~HasModel(models, data_group, name)

\* f'{instrument.name} pileup'
pileup_key_bare(name) == name

pileup_key(name) == name \o " pileup"

\* the loop of _gather_results from the i-th instrument on: a record stands
\* for gather_model_data(model_name, data_group)
RECURSIVE GatherFrom(_, _, _, _)
GatherFrom(i, insts, current, acc) ==
    IF i > Len(insts) THEN acc
    ELSE LET inst   == insts[i].value
             signal == DictSet(acc, inst.name, <<current, inst.signal_data_group>>)
         IN  GatherFrom(i + 1, insts, current,
                 IF inst.pileup_file
                 THEN DictSet(signal, pileup_key(inst.name),
                              <<pileup_model_name(inst), inst.pileup_data_group>>)
                 ELSE signal)

\* XSPECInterface._gather_results(): self.results, and whether it raised
gather_results(data, models, insts, current, res) ==
    LET bad == { i \in 1..Len(insts) :
                   \/ GatherRaises(data, models, current, insts[i].value.signal_data_group)
                   \/ /\ insts[i].value.pileup_file
                      /\ GatherRaises(data, models, pileup_model_name(insts[i].value),
                                      insts[i].value.pileup_data_group) }
    IN  IF (current = "" /\ insts # <<>>) \/ bad # {} THEN [results |-> res, raised |-> TRUE]
        ELSE [results |->
                [exists |-> TRUE,
                 records |-> GatherFrom(1, insts, current, <<>>)],
              raised |-> FALSE]

\* --------------------------------------------------------- the session (Spec)

\* xspec.Xset.openLog(f'{self.out_dir}/model_{model_name}.log')
openLog(logs, model_name) == Append(logs, model_name)

\* xspec.Xset.closeLog(): the current log, the one opened last, is closed
closeLog(logs) == IF logs = <<>> THEN logs ELSE SubSeq(logs, 1, Len(logs) - 1)

\* what callers pass to add_component as the expression
ExpressionInputs ==
    { <<"constant", "*", "vapec">>, <<"constant", " ", "*", " ", "vapec">>, <<"vapec">> }

\* the parameter names a limits file configures
LimitFiles == { {"kT"} }

\* the sessions explored: how many calls of each operation a session makes
RegistrySession ==
    [NoCalls EXCEPT !.add_instrument = MaxRegistrations + 1, !.clear_data = MaxClears,
                    !.read_data = MaxReads]

AssemblySession ==
    [NoCalls EXCEPT !.add_instrument = MaxRegistrations, !.read_data = MaxReads,
                    !.set_pileup_model = MaxPileupModels, !.add_component = MaxAdds,
                    !.fit = MaxFits]

ArchivingSession ==
    [NoCalls EXCEPT !.add_instrument = MaxRegistrations - 1, !.clear_data = MaxClears,
                    !.read_data = MaxReads, !.set_pileup_model = MaxPileupModels,
                    !.archive_previous = MaxArchivings, !.add_component = MaxAdds - 1,
                    !.fit = MaxFits]

\* a session that goes on after clear_data, long enough to fit, clear, register
\* again and archive
StaleSession ==
    [NoCalls EXCEPT !.add_instrument = MaxRegistrations + 1, !.clear_data = MaxClears,
                    !.read_data = MaxReads, !.archive_previous = MaxArchivings,
                    !.add_component = MaxAdds - 1, !.fit = MaxFits]

\* one instrument, its model fitted, archived, and fitted again
RefitSession ==
    [NoCalls EXCEPT !.add_instrument = MaxRegistrations - 1, !.read_data = MaxReads,
                    !.set_pileup_model = MaxPileupModels,
                    !.archive_previous = MaxArchivings,
                    !.add_component = MaxAdds, !.fit = MaxFits + 1]

Init ==
    /\ IdleEdges
    /\ IdleExpr
    /\ IdleNames
    /\ Constructed
    /\ budget \in {RegistrySession, AssemblySession, ArchivingSession, StaleSession,
                   RefitSession}

TotalCalls ==
    nCalls.add_instrument + nCalls.clear_data + nCalls.read_data + nCalls.set_pileup_model
    + nCalls.archive_previous + nCalls.add_component + nCalls.fit

Called(op) ==
    /\ TotalCalls < (IF budget \in {StaleSession, RefitSession}
                     THEN MaxStaleCalls ELSE MaxCalls)
    /\ nCalls' = [nCalls EXCEPT ![op] = @ + 1]

AddInstrument ==
    /\ nCalls.add_instrument < budget.add_instrument
    /\ \E name \in InstrumentNames, pileup \in BOOLEAN :
         \E r \in { add_instrument(instruments, signal_groups, pileup_groups,
                                    pileup_sources, name, pileup) } :
             /\ instruments' = r.instruments
             /\ signal_groups' = r.signal_groups
             /\ pileup_groups' = r.pileup_groups
             /\ pileup_sources' = r.pileup_sources
             /\ call' = [op |-> "add_instrument", name |-> name, pileup |-> pileup]
    /\ raised' = FALSE
    /\ Called("add_instrument")
    /\ UNCHANGED <<archive, pileup_expression, current_model, results, eData, eModels>>
    /\ UNCHANGED <<xvars, nvars, hvars, budget, eLogs>>

ClearData ==
    /\ nCalls.clear_data < budget.clear_data
    /\ eData' = <<>>
    /\ eModels' = Recover(eModels, <<>>)
    /\ signal_groups' = <<>>
    /\ pileup_groups' = <<>>
    /\ pileup_sources' = <<>>
    /\ call' = [op |-> "clear_data"]
    /\ raised' = FALSE
    /\ Called("clear_data")
    /\ UNCHANGED <<archive, instruments, pileup_expression, current_model, results>>
    /\ UNCHANGED <<xvars, nvars, hvars, budget, eLogs>>

ReadData ==
    /\ nCalls.read_data < budget.read_data
    /\ eData' = configure_responses(read_data_spectra(instruments), instruments, pileup_sources)
    /\ eModels' = Recover(eModels, eData')
    /\ call' = [op |-> "read_data"]
    /\ raised' = FALSE
    /\ Called("read_data")
    /\ UNCHANGED <<archive, instruments, signal_groups, pileup_groups, pileup_sources,
                   pileup_expression, current_model, results>>
    /\ UNCHANGED <<xvars, nvars, hvars, budget, eLogs>>

SetPileupModel ==
    /\ nCalls.set_pileup_model < budget.set_pileup_model
    /\ \E expression \in PileupExpressions \ { <<>> } :
         \E r \in { PileupModelsFrom(1, eModels, eData, instruments, pileup_sources,
                                      expression) } :
             /\ pileup_expression' = expression
             /\ eModels' = r.models
             /\ raised' = r.raised
             /\ call' = [op |-> "set_pileup_model", expression |-> expression]
    /\ Called("set_pileup_model")
    /\ UNCHANGED <<archive, instruments, signal_groups, pileup_groups, pileup_sources,
                   current_model, results, eData>>
    /\ UNCHANGED <<xvars, nvars, hvars, budget, eLogs>>

ArchivePrevious ==
    /\ nCalls.archive_previous < budget.archive_previous
    /\ \E r \in { archive_previous(archive, instruments, eData, eModels, current_model,
                                    results) } :
           /\ archive' = r.archive
           /\ raised' = r.raised
           /\ call' = [op |-> "archive_previous", skipped |-> r.skipped]
    /\ Called("archive_previous")
    /\ UNCHANGED <<instruments, signal_groups, pileup_groups, pileup_sources,
                   pileup_expression, current_model, results, eData, eModels>>
    /\ UNCHANGED <<xvars, nvars, hvars, budget, eLogs>>

AddComponent ==
    /\ nCalls.add_component < budget.add_component
    /\ \E model_name \in ModelNames, expression \in ExpressionInputs, conf \in LimitFiles,
          freeze_previous \in BOOLEAN, tie_data_groups \in BOOLEAN :
         \E r \in { add_component(model_name, expression, conf, freeze_previous,
                                   tie_data_groups) } :
             /\ archive' = r.archive
             /\ current_model' = r.current
             /\ eModels' = r.models
             /\ raised' = r.raised
             /\ call' = [op |-> "add_component", model_name |-> model_name,
                         expression |-> expression, conf |-> conf,
                         freeze_previous |-> freeze_previous,
                         tie_data_groups |-> tie_data_groups,
                         stage |-> r.stage, old_expression |-> r.old,
                         writes |-> r.writes, skips |-> r.skips]
    /\ \E model_name \in { call'.model_name } : eLogs' = openLog(eLogs, model_name)
    /\ Called("add_component")
    /\ UNCHANGED <<instruments, signal_groups, pileup_groups, pileup_sources,
                   pileup_expression, results, eData>>
    /\ UNCHANGED <<xvars, nvars, hvars, budget>>

Fit ==
    /\ nCalls.fit < budget.fit
    /\ IF DOMAIN eData = {} \/ eModels = <<>>
       THEN /\ raised' = TRUE /\ UNCHANGED <<eModels, results>>
            /\ call' = [op |-> "fit", queried |-> FALSE, error_str |-> <<>>]
       ELSE \E fitted \in { FitPerform(eModels, nCalls.fit + 1) } :
                /\ eModels' = fitted
                /\ IF FitErrorRaises(fitted, instruments, signal_groups, current_model)
                   THEN /\ raised' = TRUE /\ UNCHANGED results
                        /\ call' = [op |-> "fit", queried |-> FALSE, error_str |-> <<>>]
                   ELSE /\ \E r \in { gather_results(eData, fitted, instruments,
                                                     current_model, results) } :
                               results' = r.results /\ raised' = r.raised
                        /\ \E tokens \in { ErrorTokensFrom(1, fitted, instruments,
                                                            signal_groups, current_model) } :
                               call' = [op |-> "fit", queried |-> TRUE, error_str |-> tokens]
    /\ eLogs' = IF raised' THEN eLogs ELSE closeLog(eLogs)
    /\ Called("fit")
    /\ UNCHANGED <<archive, instruments, signal_groups, pileup_groups, pileup_sources,
                   pileup_expression, current_model, eData>>
    /\ UNCHANGED <<xvars, nvars, hvars, budget>>

Next ==
    \/ AddInstrument
    \/ ClearData
    \/ ReadData
    \/ SetPileupModel
    \/ ArchivePrevious
    \/ AddComponent
    \/ Fit

Spec == Init /\ [][Next]_vars

\* ------------------------------------------------------ claims on the session

\* this step is a call of the operation
Calls(op) == call'.op = op /\ nCalls'[op] = nCalls[op] + 1

\* the factor parameter of the component named 'constant' of a model copy
FactorOf(copy) == ParameterOf(copy[ComponentAt(copy, <<"constant">>)], "factor")

TouchedParameter(t) ==
    LET copy == CopyOf(eModels, current_model, t.group)
    IN  ParameterOf(copy[ComponentAt(copy, t.component)], t.parameter)

\* C4: the migration of add_component writes to no parameter from an
\* archived parameter whose link is non-empty: every write it makes is from
\* an unlinked archived parameter, and a parameter it skipped as linked
\* does not take the frozen flag that freeze_previous gives the copied ones.
C4_LinkedNeverCopied ==
    call.op = "add_component" =>
        /\ \A w \in call.writes : w.link = NoLink
        /\ (call.stage = "done" /\ call.freeze_previous /\ pileup_expression = <<>>) =>
              \A t \in call.skips : t.parameter # "factor" => ~TouchedParameter(t).frozen

\* a migration with freeze_previous that copied some parameters and skipped
\* linked ones
C4_Witness ==
    /\ call.op = "add_component"
    /\ call.stage = "done"
    /\ call.freeze_previous
    /\ pileup_expression = <<>>
    /\ call.writes # {}
    /\ \E t \in call.skips : t.parameter # "factor" /\ t.link # NoLink

\* the data groups of the signal groups that hold a copy of the live model
LiveGroups ==
    { g \in { signal_groups[j] : j \in 1..Len(signal_groups) } :
        current_model # "" /\ HasModel(eModels, g, current_model) }

\* C5: after an add_component call with freeze_previous = FALSE that
\* returned, made on a live model that has been fitted (so that its state
\* is archived and migrated), every unlinked parameter (the constant factor
\* aside) of every component the live model had before the call has, in
\* the new model, the values and the frozen flag it had in the live model.
C5_MigrationIdempotence ==
    [][ (Calls("add_component") /\ ~raised' /\ ~call'.freeze_previous /\ results.exists) =>
          \A g \in LiveGroups :
            LET old == CopyOf(eModels, current_model, g)
                new == CopyOf(eModels', current_model', g)
            IN  \A c \in 1..Len(old) : \A k \in 1..Len(old[c].parameters) :
                  LET q == old[c].parameters[k]
                  IN  (q.link = NoLink /\ ~(old[c].name = <<"constant">> /\ q.name = "factor")) =>
                        /\ HasComponent(new, old[c].name)
                        /\ HasParameter(new[ComponentAt(new, old[c].name)], q.name)
                        /\ ParameterOf(new[ComponentAt(new, old[c].name)], q.name).values = q.values
                        /\ ParameterOf(new[ComponentAt(new, old[c].name)], q.name).frozen = q.frozen
      ]_vars

\* C6: an add_component call made while a live model exists leaves in the
\* archive, for every registered instrument that holds a copy of the live
\* model, a snapshot of that model: one stored under its name with its
\* expression and the parameters of the instrument's copy.
C6_SnapshotArchived ==
    [][ (Calls("add_component") /\ current_model # "") =>
          \A i \in 1..Len(instruments) :
            LET inst == instruments[i].value
            IN  (HasModel(eModels, inst.signal_data_group, current_model)
                   /\ ~ArchivedModelRaises(eData, eModels, inst.signal_data_group, current_model)) =>
                  /\ IsArchived(archive', inst.name, current_model)
                  /\ Archived(archive', inst.name, current_model) =
                        ArchivedModel(inst.name, inst.signal_source, inst.signal_data_group,
                                      eModels, current_model)
      ]_vars

\* the expressions of the signal model most recently archived for some
\* instrument
LastSignalExpressions ==
    { LET signal == SelectSeq(archive[i].value, LAMBDA e : e.value.source = 1)
      IN  IF signal = <<>> THEN <<>> ELSE Last(signal).value.expression :
        i \in 1..Len(archive) }

\* C7: the 'previous' expression add_component hands to the expression
\* algebra is the expression of the signal model most recently archived,
\* and is empty when nothing has been archived.
C7_PreviousIsLastSignal ==
    (call.op = "add_component" /\ call.stage # "archive") =>
        IF archive = <<>> THEN call.old_expression = <<>>
        ELSE call.old_expression \in LastSignalExpressions

\* an expression that holds the constant factor and matches neither pattern
Malformed(e) ==
    /\ Contains(e, <<"constant">>)
    /\ ~ParseParen(<<" ">> \o e).matched
    /\ ~ParseNoParen(<<" ">> \o e).matched

\* C8: an add_component call whose previous expression holds the constant
\* factor and matches neither pattern raises, and the engine's models are
\* left as they were: no model is instantiated and the live one is kept.
C8_MalformedPreviousRaises ==
    [][ (Calls("add_component") /\ call'.stage # "archive"
           /\ Malformed(old_expression(archive'))) =>
          (raised' /\ eModels' = eModels) ]_vars

\* add_component was called on a malformed previous expression, with a live
\* model in the engine
C8_Witness ==
    /\ call.op = "add_component"
    /\ call.stage = "expression"
    /\ Malformed(call.old_expression)
    /\ eModels # <<>>

\* the data group and pileup source indices an instrument holds
IndicesOf(inst) ==
    {<<"group", inst.signal_data_group>>}
    \cup (IF inst.pileup_file
          THEN {<<"group", inst.pileup_data_group>>, <<"source", inst.pileup_source>>}
          ELSE {})

\* C10: the indices add_instrument hands out are held by no other
\* registered instrument and are higher than every index of their kind
\* that any other registered instrument holds.
C10_IndicesNeverReused ==
    [][ Calls("add_instrument") =>
          \A i \in 1..Len(instruments) :
            instruments[i].key # call'.name =>
              \A new \in IndicesOf(DictGet(instruments', call'.name)) :
                \A held \in IndicesOf(instruments[i].value) :
                  new[1] = held[1] => new[2] > held[2] ]_vars

\* the slot of a spectrum holds the response of the owner
Holds(spectrum, k, owner) == k \in DOMAIN spectrum /\ owner = spectrum[k]

\* the slot of a spectrum is 'none', or was never set
Disabled(spectrum, k) == k \notin DOMAIN spectrum \/ spectrum[k] = "none"

\* C12: after read_data with at least one pileup instrument and P pileup
\* sources, the signal spectrum of every instrument holds the instrument's
\* signal response in slot 0 and 'none' in the slots 1..P, and the pileup
\* spectrum of every pileup instrument holds the instrument's pileup
\* response in slot pileup_source - 1 and 'none' in every other slot 0..P.
C12_BlockDiagonal ==
    (call.op = "read_data" /\ ~raised
       /\ \E i \in 1..Len(instruments) : instruments[i].value.pileup_file) =>
        \A i \in 1..Len(instruments) :
            LET inst == instruments[i].value
                P    == Len(pileup_sources)
            IN  /\ Holds(eData[inst.signal_data_group], 0, <<inst.name, "signal">>)
                /\ \A k \in 1..P : Disabled(eData[inst.signal_data_group], k)
                /\ inst.pileup_file =>
                     /\ Holds(eData[inst.pileup_data_group], inst.pileup_source - 1,
                              <<inst.name, "pileup">>)
                     /\ \A k \in (0..P) \ {inst.pileup_source - 1} :
                          Disabled(eData[inst.pileup_data_group], k)

\* ---------------------------------------------------------------------- C13
\* the parameters of the registered instruments' models, as <<model name,
\* data group, parameter.index>>
InstrumentParameters ==
    UNION { { <<current_model, instruments[i].value.signal_data_group, n>> :
                n \in 1..nParameters(CopyOf(eModels, current_model,
                                            instruments[i].value.signal_data_group)) }
            \cup (IF instruments[i].value.pileup_file
                  THEN { <<pileup_model_name(instruments[i].value),
                           instruments[i].value.pileup_data_group, n>> :
                           n \in 1..nParameters(CopyOf(eModels,
                                    pileup_model_name(instruments[i].value),
                                    instruments[i].value.pileup_data_group)) }
                  ELSE {}) : i \in 1..Len(instruments) }

ParameterAt(p) == ParametersFrom(CopyOf(eModels, p[1], p[2]), 1)[p[3]]

TokenOf(p) ==
    IF p[1] = current_model
    THEN <<p[1], corr_index(p[3], inst_index(signal_groups, p[2]),
                            nParameters(CopyOf(eModels, p[1], p[2])))>>
    ELSE <<p[1], p[3]>>

TimesListed(token) ==
    Cardinality({ j \in 1..Len(call.error_str) : call.error_str[j] = token })

\* C13: after a fit whose error query was issued, the token list holds
\* exactly one token for each unfrozen, unlinked parameter of every
\* instrument's signal model and pileup model, none for a frozen or linked
\* one, and distinct parameters have distinct tokens
C13_ErrorTokens ==
    (call.op = "fit" /\ call.queried) =>
        /\ \A p \in InstrumentParameters :
              TimesListed(TokenOf(p)) = (IF Unfrozen(ParameterAt(p)) THEN 1 ELSE 0)
        /\ \A p, q \in InstrumentParameters : p # q => TokenOf(p) # TokenOf(q)
        /\ Len(call.error_str)
              = Cardinality({ p \in InstrumentParameters : Unfrozen(ParameterAt(p)) })

\* ---------------------------------------------------------------------- C14
\* the keys self.results must have: the registered names, and '<name> pileup'
\* for each instrument with a pileup file
ExpectedKeys ==
    { instruments[i].key : i \in 1..Len(instruments) }
        \cup { instruments[i].key \o " pileup" :
                 i \in { j \in 1..Len(instruments) : instruments[j].value.pileup_file } }

\* C14: after a fit that gathered its results, the result mapping holds one
\* record per registered instrument name and one per instrument with a
\* pileup file under '<name> pileup', and no other key
C14_ResultKeys ==
    (call.op = "fit" /\ ~raised) =>
        /\ { results.records[j].key : j \in 1..Len(results.records) } = ExpectedKeys
        /\ Len(results.records)
              = Len(instruments)
                  + Cardinality({ j \in 1..Len(instruments) : instruments[j].value.pileup_file })

C14_Witness ==
    /\ call.op = "fit" /\ ~raised
    /\ Len(instruments) = 2
    /\ \E i, j \in 1..2 : instruments[i].value.pileup_file /\ ~instruments[j].value.pileup_file
    /\ Len(results.records) = 3

\* ---------------------------------------------------------------------- C15
\* C15: at most one log is open at any time: the log an add_component
\* opened is closed before the next add_component opens another
C15_OneLogOpen == Len(eLogs) <= 1

\* ---------------------------------------------------------------------- C16
\* instrument.get_signal_model(self.current_model) does not raise
Located(inst) == HasModel(eModels, inst.signal_data_group, current_model)

\* C16: when archive_previous caught the failure to locate the current model
\* of an instrument, it skipped that instrument only: every instrument whose
\* model exists is archived under the current model's name, and the call
\* returns
C16_SkipsOnlyMissing ==
    [][ (call'.op = "archive_previous" /\ call'.skipped # {}) =>
            /\ ~raised'
            /\ \A i \in 1..Len(instruments) :
                  Located(instruments[i].value) =>
                      IsArchived(archive', instruments[i].key, current_model)
      ]_vars

\* ---------------------------------------------------------------------- C18
\* the number of places of s at which pat occurs
Occurrences(s, pat) == Cardinality({ i \in 1..Len(s) : SubSeqAt(s, i, pat) })

\* C18: with a pileup expression set, the expression of the live signal
\* model is '<pileup_expression> + <signal composite>': the pileup
\* sub-expression is its leading block and occurs in it exactly once,
\* however many components have been added
C18_PileupOnce ==
    (xPileup # <<>> /\ xPrev # <<>>) =>
        /\ SubSeqAt(xPrev, 1, xPileup \o <<" + ">>)
        /\ Occurrences(xPrev, xPileup) = 1

\* ---------------------------------------------------------------------- C19
\* where the constant wrapper 'constant*' of an expression starts
WrapperAt(e) == Min({ k \in 1..Len(e) : SubSeqAt(e, k, <<"constant", "*">>) })

\* the text preceding the wrapper
BeforeWrapper(e) == SubSeq(e, 1, WrapperAt(e) - 1)

\* the additive body the wrapper multiplies, without its parentheses
WrappedBody(e) ==
    IF SubSeqAt(e, WrapperAt(e) + 2, <<"(">>) /\ Last(e) = ")"
    THEN SubSeq(e, WrapperAt(e) + 3, Len(e) - 1)
    ELSE SubSeq(e, WrapperAt(e) + 2, Len(e))

\* the previous expression re-wrapped with the new term last in its body
Rewrapped(e, new) ==
    <<"constant", "*", "(">> \o WrappedBody(e) \o <<" + ">> \o new \o <<")">>

\* f'{self.pileup_expression} + ', or nothing
PileupBlock == IF xPileup = <<>> THEN <<>> ELSE xPileup \o <<" + ">>

\* an extension step of a previous expression that contains 'constant*'
ExtendsWrapper ==
    /\ xAdded' # xAdded
    /\ ~xRaised'
    /\ xPrev # <<>>
    /\ Contains(xPrev, <<"constant", "*">>)

\* C19 as stated: the extension gives 'constant*(<body> + <new>)' behind the
\* text that preceded the wrapper, unchanged
C19_AsStated ==
    [][ ExtendsWrapper =>
          xPrev' = PileupBlock \o BeforeWrapper(xPrev) \o Rewrapped(xPrev, Last(xAdded'))
      ]_vars

\* C19, amended: extending a previous expression that contains 'constant*'
\* puts the new term last inside the wrapper and always re-wraps in the
\* parenthesized form; the text that preceded the wrapper is kept behind one
\* more leading space
C19_ExtendInsideWrapper ==
    [][ ExtendsWrapper =>
          xPrev' = PileupBlock \o <<" ">> \o BeforeWrapper(xPrev)
                       \o Rewrapped(xPrev, Last(xAdded'))
      ]_vars

\* a bare 'constant*vapec' behind a pileup block was extended twice
C19_Witness ==
    /\ Len(xAdded) = 3
    /\ ~xRaised
    /\ xPileup # <<>>
    /\ xAdded[1] = <<"constant", "*", "vapec">>
    /\ Contains(xPrev, <<"constant", "*", "(", "vapec", " + ">> \o xAdded[2]
                           \o <<" + ">> \o xAdded[3] \o <<")">>)

\* ---------------------------------------------------------------------- C20
\* the raw expression writes the constant factor as 'const' followed by '*',
\* with or without spaces in between
WritesShorthand(raw) ==
    \E k \in 1..Len(raw) :
        /\ raw[k] = "const"
        /\ \E m \in (k + 1)..Len(raw) :
              /\ raw[m] = "*"
              /\ \A j \in (k + 1)..(m - 1) : raw[j] = " "

\* C20: the first expression of a chain, which the extension step only
\* normalizes, comes out with the canonical 'constant*' and without the
\* shorthand 'const' whenever it was written with the shorthand
C20_NormalizeShorthand ==
    (Len(xAdded) = 1 /\ ~xRaised /\ xPileup = <<>> /\ WritesShorthand(xAdded[1])) =>
        /\ Contains(xPrev, <<"constant", "*">>)
        /\ ~Contains(xPrev, <<"const">>)

\* ---------------------------------------------------------------------- C21
\* the migration of the last add_component ran to its end
Migrated == call.op = "add_component" /\ call.stage = "done" /\ archive # <<>>

\* the archived model the migration read for the j-th signal data group
MigratedFrom(j) == ArchivedModels(archive)[j].value

\* C21: after an add_component that returned, for every signal data group,
\* every component other than 'constant' that the archived model and the
\* new model both hold, and every parameter of that name in both whose
\* archived link is empty, the new parameter has the archived value tuple
\* and is frozen exactly when the archived one was or freeze_previous is set
C21_MigrationCopies ==
    Migrated =>
        \A j \in 1..Len(signal_groups) :
            LET new == CopyOf(eModels, current_model, signal_groups[j])
                old == MigratedFrom(j).components
            IN  \A c \in 1..Len(old) :
                  (old[c].value.name # <<"constant">> /\ HasComponent(new, old[c].value.name)) =>
                    LET fresh == new[ComponentAt(new, old[c].value.name)]
                    IN  \A k \in 1..Len(fresh.parameters) :
                          Copied(old[c].value, fresh.parameters[k].name) =>
                            LET o == ParameterOf(old[c].value, fresh.parameters[k].name)
                            IN  /\ fresh.parameters[k].values = o.values
                                /\ fresh.parameters[k].frozen = (o.frozen \/ call.freeze_previous)

\* a migration with freeze_previous that copied a fitted, unfrozen
\* parameter of a component other than 'constant'
C21_Witness ==
    /\ Migrated
    /\ call.freeze_previous
    /\ \E j \in 1..Len(signal_groups) :
          \E c \in 1..Len(MigratedFrom(j).components) :
            LET o == MigratedFrom(j).components[c].value
            IN  /\ o.name # <<"constant">>
                /\ HasComponent(CopyOf(eModels, current_model, signal_groups[j]), o.name)
                /\ \E k \in 1..Len(o.parameters) :
                      /\ o.parameters[k].link = NoLink
                      /\ ~o.parameters[k].frozen
                      /\ o.parameters[k].values[1] = "fit"

\* ---------------------------------------------------------------------- C22
\* C22: the migration of add_component writes to no parameter of the
\* component 'constant' of data group 1, and skips none of them as linked:
\* it does not touch that component
C22_FirstFactorNotMigrated ==
    call.op = "add_component" =>
        \A t \in call.writes \cup call.skips :
            ~(t.group = 1 /\ t.component = <<"constant">>)

\* a migration from an archived model that holds 'constant' wrote to data
\* group 1 and wrote the factor of another data group
C22_Witness ==
    /\ Migrated
    /\ \E j \in 1..Len(signal_groups) :
          /\ signal_groups[j] = 1
          /\ \E c \in 1..Len(MigratedFrom(j).components) :
                /\ MigratedFrom(j).components[c].value.name = <<"constant">>
                /\ MigratedFrom(j).components[c].value.parameters[1].link = NoLink
    /\ \E w \in call.writes : w.group = 1
    /\ \E w \in call.writes : w.group # 1 /\ w.component = <<"constant">>

\* ---------------------------------------------------------------------- C23
\* C23: add_instrument gives the instrument the signal data group
\* num_groups + 1 and, with a pileup file, the pileup data group after it
\* and the next source index; afterwards every instrument has signal
\* source 1, the instruments with a pileup file hold the pileup sources
\* 2, 3, ... in the order of their registration, and every key of
\* pileup_sources is the pileup source of the instrument recorded under it.
C23_SequentialIndices ==
    [][ Calls("add_instrument") =>
          LET inst == DictGet(instruments', call'.name)
          IN  /\ inst.signal_data_group = num_groups(signal_groups, pileup_groups) + 1
              /\ inst.pileup_file =>
                    /\ inst.pileup_data_group = inst.signal_data_group + 1
                    /\ inst.pileup_source = Len(pileup_sources) + 2
              /\ \A i \in 1..Len(instruments') :
                    /\ instruments'[i].value.signal_source = 1
                    /\ instruments'[i].value.pileup_file =>
                          instruments'[i].value.pileup_source =
                            1 + Cardinality({ j \in 1..i : instruments'[j].value.pileup_file })
              /\ \A k \in 1..Len(pileup_sources') :
                    LET owner == DictGet(instruments', pileup_sources'[k].value)
                    IN  owner.pileup_file /\ owner.pileup_source = pileup_sources'[k].key ]_vars

\* ------------------------------------------------------------- C24 and C25
\* the models add_component instantiates (line 856) in the present state,
\* before the limits step: <<>> when the expression cannot be configured
Instantiated(c) ==
    LET e == configure_new_expression(c.expression, c.old_expression, pileup_expression)
    IN  IF c.stage = "archive" \/ ~e.ok THEN <<>>
        ELSE EngineModel(eModels, eData, e.expr, c.model_name, 1)

\* the models the limits step of the call leaves behind
Limited(c) ==
    set_parameter_limits(Instantiated(c), instruments, c.model_name, c.conf,
                         c.tie_data_groups).models

\* C24: with tie_data_groups true the limits step changes the values of
\* parameters of the signal data group of the first instrument only, and
\* changes no link
C24_TiedLimitsFirstGroup ==
    [][ (Calls("add_component") /\ call'.tie_data_groups /\ Instantiated(call') # <<>>) =>
          \E before \in { DictGet(Instantiated(call'), call'.model_name).copies } :
          \E after \in { DictGet(Limited(call'), call'.model_name).copies } :
            \A g \in DOMAIN before :
              \A c \in 1..Len(before[g]) :
                \A k \in 1..Len(before[g][c].parameters) :
                  LET q == before[g][c].parameters[k]
                      r == after[g][c].parameters[k]
                  IN  /\ r.link = q.link
                      /\ r.values # q.values =>
                            /\ g = instruments[1].value.signal_data_group
                            /\ q.name \in call'.conf
                            /\ r.values = LimitValues ]_vars

\* the limits step of the call ran to its end
PastLimits(c) == c.stage \in {"pileup", "migration", "constant", "done"}

\* the parameters of the instantiated model a configured limit key matches,
\* in the data groups that hold a spectrum:
\* <<data group, component, parameter>>
Matching(c) ==
    LET copies == DictGet(Instantiated(c), c.model_name).copies
    IN  { t \in UNION { UNION { { <<g, n, k>> : k \in 1..Len(copies[g][n].parameters) } :
                                  n \in 1..Len(copies[g]) } :
                          g \in DOMAIN copies \cap DOMAIN eData } :
            copies[t[1]][t[2]].parameters[t[3]].name \in c.conf }

\* after the limits step the parameter is unlinked and carries the limits
LimitedAndFree(c, t) ==
    LET r == DictGet(Limited(c), c.model_name).copies[t[1]][t[2]].parameters[t[3]]
    IN  r.link = NoLink /\ r.values = LimitValues

\* the assignments the limits step makes to the parameter
WritesTo(c, t) ==
    LimitWrites(DictGet(Instantiated(c), c.model_name).copies[t[1]][t[2]].parameters[t[3]],
                t[1], c.conf, c.tie_data_groups)

\* C25: with tie_data_groups false every parameter a configured
\* limit key matches is unlinked before its limits are applied, and after
\* the limits step it is unlinked and carries the limits
C25_UntieThenLimits ==
    [][ (Calls("add_component") /\ ~call'.tie_data_groups /\ PastLimits(call')) =>
          \A t \in Matching(call') :
              /\ LimitedAndFree(call', t)
              /\ WritesTo(call', t) = <<"link", "values">> ]_vars

\* ------------------------------------------------------------- C26 and C27
\* add_component has returned and a pileup expression stands
ReturnedWithPileup ==
    call.op = "add_component" /\ call.stage = "done" /\ pileup_expression # <<>>

\* C26: after add_component has returned with a standing pileup expression,
\* in the signal model of every instrument that has a pileup model, every
\* parameter of every component of the pileup model is linked to the
\* parameter of that name of the component of that name of the
\* instrument's own pileup model
C26_PileupLinked ==
    ReturnedWithPileup =>
        \A i \in 1..Len(instruments) :
            LET inst == instruments[i].value
            IN  inst.pileup_file =>
                  LET sig == CopyOf(eModels, current_model, inst.signal_data_group)
                      pil == CopyOf(eModels, pileup_model_name(inst), inst.pileup_data_group)
                  IN  \A c \in 1..Len(pil) :
                        /\ HasComponent(sig, pil[c].name)
                        /\ \A k \in 1..Len(pil[c].parameters) :
                              ParameterOf(sig[ComponentAt(sig, pil[c].name)],
                                          pil[c].parameters[k].name).link
                                = LinkTo(pileup_model_name(inst), inst.pileup_data_group,
                                         pil[c].name, pil[c].parameters[k].name)

\* add_component returned after a migration that wrote to the signal model
\* of an instrument with a pileup model, and a parameter of that signal
\* model is linked to the instrument's pileup model
C26_Witness ==
    /\ ReturnedWithPileup
    /\ Migrated
    /\ \E i \in 1..Len(instruments) :
          LET inst == instruments[i].value
              sig  == CopyOf(eModels, current_model, inst.signal_data_group)
          IN  /\ inst.pileup_file
              /\ \E w \in call.writes : w.group = inst.signal_data_group
              /\ \E c \in 1..Len(sig) :
                    sig[c].parameters[1].link
                      = LinkTo(pileup_model_name(inst), inst.pileup_data_group,
                               sig[c].name, sig[c].parameters[1].name)

\* the names of the components of the pileup models the instruments hold
PileupComponents ==
    UNION { { CopyOf(eModels, pileup_model_name(instruments[i].value),
                     instruments[i].value.pileup_data_group)[c].name :
                c \in 1..Len(CopyOf(eModels, pileup_model_name(instruments[i].value),
                                    instruments[i].value.pileup_data_group)) } :
            i \in { j \in 1..Len(instruments) : instruments[j].value.pileup_file } }

\* C27: after add_component has returned with a standing pileup expression,
\* in the signal model of every instrument without a pileup model every
\* parameter of the pileup components has the value zero and is frozen
C27_NoPileupZeroed ==
    ReturnedWithPileup =>
        \A i \in 1..Len(instruments) :
            ~instruments[i].value.pileup_file =>
                LET sig == CopyOf(eModels, current_model,
                                  instruments[i].value.signal_data_group)
                IN  \A c \in 1..Len(sig) :
                        sig[c].name \in PileupComponents =>
                            \A k \in 1..Len(sig[c].parameters) :
                                /\ sig[c].parameters[k].values = ZeroValues
                                /\ sig[c].parameters[k].frozen

\* ---------------------------------------------------------------------- C28
\* the tokens 'model_name:(parameter index + (g - 1) * nParameters)' of the
\* unfrozen, unlinked parameters of the signal models, g the signal data
\* group of the instrument
TokensByGroup ==
    UNION { { <<current_model,
                n + (instruments[i].value.signal_data_group - 1)
                      * nParameters(CopyOf(eModels, current_model,
                                           instruments[i].value.signal_data_group))>> :
                n \in { FreeIndices(CopyOf(eModels, current_model,
                                           instruments[i].value.signal_data_group))[j] :
                          j \in 1..Len(FreeIndices(CopyOf(eModels, current_model,
                                           instruments[i].value.signal_data_group))) } } :
            i \in 1..Len(instruments) }

\* C28: in the token list of a fit whose error query was issued, the tokens
\* of the signal model are those of its unfrozen, unlinked parameters,
\* offset by (g - 1) * nParameters for the signal data group g
C28_TokenOffsetByGroup ==
    (call.op = "fit" /\ call.queried) =>
        { call.error_str[j] : j \in { k \in 1..Len(call.error_str) :
                                        call.error_str[k][1] = current_model } }
          = TokensByGroup

\* ---------------------------------------------------------------------- C29
\* the parameter names of the live component that the mapping of its
\* family lists, in the order of the component
MappedNames ==
    SelectSeq(lComponent.parameterNames,
              LAMBDA n : n \in DOMAIN MappedLabels[base_name(lComponent.name)[1]])

\* C29: archiving a component of a listed family with a parameter name the
\* mapping lacks raises nothing and archives the parameters the mapping
\* lists, that one parameter left out
C29_UnknownParameterSkipped ==
    (lArchived # <<>> /\ lArchived.state # "live"
       /\ base_name(lComponent.name)[1] \in DOMAIN MappedLabels) =>
        /\ lArchived.state = "archived"
        /\ DictKeys(lArchived.parameters) = MappedNames

\* ---------------------------------------------------------------------- C30
\* add_component reached its migration with archived models to migrate
ReachedMigration ==
    /\ call.op = "add_component"
    /\ call.stage \in {"migration", "constant", "done"}
    /\ archive # <<>>

\* C30: the migration of add_component completes for every signal data
\* group, and the archived model it copies onto signal data group g is the
\* signal model, archived from data group g, of the instrument that holds
\* g as its signal data group
C30_MigratesOwnModel ==
    ReachedMigration =>
        /\ call.stage # "migration"
        /\ \A j \in 1..Len(signal_groups) :
              /\ j <= Len(ArchivedModels(archive))
              /\ MigratedFrom(j).data_group = signal_groups[j]
              /\ MigratedFrom(j).source = 1
              /\ DictHas(instruments, MigratedFrom(j).label)
              /\ DictGet(instruments, MigratedFrom(j).label).signal_data_group
                    = signal_groups[j]

\* ---------------------------------------------------------------------- C31
\* C31: an add_component that raises in _configure_new_expression leaves
\* current_model, and the models of the engine, as they were before the call
C31_FailedExpressionKeepsModel ==
    [][ (Calls("add_component") /\ call'.stage = "expression") =>
          /\ current_model' = current_model
          /\ eModels' = eModels ]_vars

\* ---------------------------------------------------------------------- C32
\* the signal data groups and the pileup data groups the registered
\* instruments hold
HeldSignalGroups ==
    { instruments[i].value.signal_data_group : i \in 1..Len(instruments) }

HeldPileupGroups ==
    { instruments[i].value.pileup_data_group :
        i \in { j \in 1..Len(instruments) : instruments[j].value.pileup_file } }

\* C32: the data groups the registered instruments hold are pairwise
\* distinct and are the elements of signal_groups and of pileup_groups, and
\* num_groups is their number
C32_RegistryConsistent ==
    /\ \A i, j \in 1..Len(instruments) :
          i # j => instruments[i].value.signal_data_group
                     # instruments[j].value.signal_data_group
    /\ Cardinality(HeldPileupGroups)
          = Cardinality({ j \in 1..Len(instruments) : instruments[j].value.pileup_file })
    /\ HeldSignalGroups \cap HeldPileupGroups = {}
    /\ HeldSignalGroups = { signal_groups[k] : k \in 1..Len(signal_groups) }
    /\ HeldPileupGroups = { pileup_groups[k] : k \in 1..Len(pileup_groups) }
    /\ num_groups(signal_groups, pileup_groups)
          = Cardinality(HeldSignalGroups \cup HeldPileupGroups)

\* ---------------------------------------------------------------------- C33
\* C33: with a standing pileup expression add_component does not raise in
\* _set_pileup_links, whichever of the instruments have pileup files
C33_PileupLinksComplete ==
    (call.op = "add_component" /\ pileup_expression # <<>>) => call.stage # "pileup"

\* ---------------------------------------------------------------------- C34
\* the instrument has a signal model and a pileup model for archive_previous
\* to archive
HasPileupToArchive(inst) ==
    /\ inst.pileup_file
    /\ HasModel(eModels, inst.signal_data_group, current_model)
    /\ HasModel(eModels, inst.pileup_data_group, pileup_model_name(inst))

\* C34: after an add_component whose archive_previous archived the live
\* state, the archive holds, for every instrument with a pileup model, the
\* pileup model as it was when the call was made
C34_PileupSnapshotCurrent ==
    [][ (/\ Calls("add_component")
         /\ call'.stage # "archive"
         /\ current_model # ""
         /\ results.exists) =>
          \A i \in 1..Len(instruments) :
            HasPileupToArchive(instruments[i].value) =>
              LET inst == instruments[i].value
              IN  /\ DictHas(archive', inst.name)
                  /\ DictHas(DictGet(archive', inst.name), pileup_model_name(inst))
                  /\ DictGet(DictGet(archive', inst.name), pileup_model_name(inst))
                        = ArchivedModel(inst.name, inst.pileup_source,
                                        inst.pileup_data_group, eModels,
                                        pileup_model_name(inst)) ]_vars

====
